---- MODULE Spec2Model ----
(***************************************************************************)
(* A model of the cliptools subtitle engine: the tolerant SRT parser, its  *)
(* serializer and validator (utils/srt_parser.py), the post-processing     *)
(* steps on block sequences, and the word-to-sentence aligner              *)
(* (utils/json_to_srt_sentences.py, utils/azure_spacy_segmenter.py).       *)
(*                                                                         *)
(* Python strings are TLA+ strings; a character is a string of length 1.   *)
(* Times that the code holds as float seconds are integer milliseconds.    *)
(***************************************************************************)
EXTENDS Integers, Sequences, FiniteSets, TLC

VARIABLES
    \* --- parser / serializer / validator (test_sample_snippet's flow)
    chunks,      \* the candidate blocks the input document is written from
    sep,         \* the blank lines written between candidate blocks
    srt_text,    \* the input text
    blocks,      \* parse_srt_blocks(srt_text)
    round_trip,  \* blocks_to_text(blocks)
    blocks2,     \* parse_srt_blocks(round_trip)
    ok,          \* validate_srt(srt_text)[0]
    errors,      \* validate_srt(srt_text)[1]
    pc,          \* position in the flow
    \* --- post-processing of a block sequence
    seq,         \* the block sequence being transformed in place
    before,      \* the sequence as it was when the last operation was called
    op,          \* the last operation applied
    threshold,   \* fill_short_gaps' threshold, in ms
    min_seconds, \* enforce_min_duration's min_seconds, in ms
    max_len,     \* merge_short_adjacent_blocks' max_len
    exceptions,  \* merge_short_adjacent_blocks' exceptions
    start_index, \* renumber_blocks' start_index
    \* --- aligner
    words,       \* Word list, sorted by start
    phrases,     \* (display, p_start, p_end) list, sorted by p_start
    p_idx,       \* number of phrases processed by the for loop
    w_idx,       \* the shared forward-only word cursor
    phrase_words,\* the words collected for the phrase processed last
    taken,       \* the number of words given to each emitted segment of that phrase
    results,     \* the segments emitted so far
    \* --- subtitle generation for one speaker
    data,        \* the records of the timing file
    speaker,     \* the speaker asked for
    drop_non_speech, \* whether CLIPTOOLS_DROP_NON_SPEECH=1 is set in the environment
    \* --- sentence segmenter (split_text_with_spacy)
    raw_sents,   \* the stripped, non-empty sentences of the sentence splitter
    min_chars,   \* _merge_short_sentences' min_chars
    preferred_max_chars, \* _split_long_segment's preferred_max_chars
    merged_sents, \* merged = _merge_short_sentences(raw_sents, min_chars)
    final,       \* the fragments returned
    \* --- duration codec (to_seconds)
    duration_text,    \* the text handed to to_seconds
    duration_seconds, \* what to_seconds returned, in units of 0.1 ms
    \* --- translation of a document chunk by chunk (translate_srt_gpt.py)
    content,     \* the model's response text for the chunk merged last
    chunk,       \* the number of chunks processed
    \* --- clipping (adjust_srt)
    clip_start,  \* clip_start_sec, in ms
    clip_end,    \* clip_end_sec, in ms
    output       \* the lines written to the output file

parseVars == <<chunks, sep, srt_text, blocks, round_trip, blocks2, ok, errors, pc>>
postVars  == <<seq, before, op, threshold, min_seconds, max_len, exceptions, start_index>>
alignVars == <<words, phrases, p_idx, w_idx, phrase_words, taken, results,
               data, speaker, drop_non_speech>>
toolVars == <<raw_sents, min_chars, preferred_max_chars, merged_sents, final,
              duration_text, duration_seconds, content, chunk,
              clip_start, clip_end, output>>
vars == <<parseVars, postVars, alignVars, toolVars>>

\* Optional values: None is the empty tuple, a present value v is <<v>>
None == << >>
Some(v) == << v >>

-----------------------------------------------------------------------------
(* Python string primitives                                                *)

Ch(s, i) == SubSeq(s, i, i)

\* the one value of a set of one value (used to evaluate a local once)
Only(S) == CHOOSE x \in S : TRUE

\* The characters the inputs are written in, in code point order
\* (str comparison is by code point).
AsciiOrder == " !'*+,-.0123456789:;>?ABCDEFGHIJKLMNOPQRSTUVWXYZabcdefghijklmnopqrstuvwxyz"

Ord(c) == IF \E i \in 1..Len(AsciiOrder) : Ch(AsciiOrder, i) = c
          THEN CHOOSE i \in 1..Len(AsciiOrder) : Ch(AsciiOrder, i) = c
          ELSE 0

Digits == "0123456789"

IsDigitChar(c) == c \in { "0", "1", "2", "3", "4", "5", "6", "7", "8", "9" }

DigitVal(c) ==
    CASE c = "0" -> 0 [] c = "1" -> 1 [] c = "2" -> 2 [] c = "3" -> 3 [] c = "4" -> 4
      [] c = "5" -> 5 [] c = "6" -> 6 [] c = "7" -> 7 [] c = "8" -> 8 [] c = "9" -> 9

\* str.isdigit(): non-empty and every character a digit
IsDigit(s) == Len(s) > 0 /\ \A i \in 1..Len(s) : IsDigitChar(Ch(s, i))

IsSpaceChar(c) == c \in {" ", "\t", "\n", "\r"}

\* str.strip() is blank: `not line.strip()`
IsBlank(s) == \A i \in 1..Len(s) : IsSpaceChar(Ch(s, i))

RECURSIVE FirstNonSpace(_, _)
FirstNonSpace(s, i) ==
    IF i > Len(s) \/ ~IsSpaceChar(Ch(s, i)) THEN i ELSE FirstNonSpace(s, i + 1)

RECURSIVE LastNonSpace(_, _)
LastNonSpace(s, i) ==
    IF i < 1 \/ ~IsSpaceChar(Ch(s, i)) THEN i ELSE LastNonSpace(s, i - 1)

LStrip(s) == SubSeq(s, FirstNonSpace(s, 1), Len(s))

Strip(s) == SubSeq(s, FirstNonSpace(s, 1), LastNonSpace(s, Len(s)))

\* str.split(sep): the fields between the occurrences of sep, left to right
\* (the separators used here, "\n", ":", "," and "-->", cannot overlap themselves)
Occurrences(s, d) == { i \in 1..(Len(s) - Len(d) + 1) : SubSeq(s, i, i + Len(d) - 1) = d }

\* the fields of s from position `from` on, between the occurrences occ of a
\* separator of length m
RECURSIVE FieldsFrom(_, _, _, _)
FieldsFrom(s, m, occ, from) ==
    Only({ IF later = {} THEN << SubSeq(s, from, Len(s)) >>
           ELSE Only({ << SubSeq(s, from, p - 1) >> \o FieldsFrom(s, m, occ, p + m) :
                       p \in { CHOOSE x \in later : \A y \in later : x <= y } }) :
           later \in { { q \in occ : q >= from } } })

Split(s, d) == Only({ FieldsFrom(s, Len(d), occ, 1) : occ \in { Occurrences(s, d) } })

\* str.split(sep, 1)
SplitOnce(s, d) ==
    LET p == Split(s, d)
    IN  IF Len(p) = 1 THEN p
        ELSE << p[1], SubSeq(s, Len(p[1]) + Len(d) + 1, Len(s)) >>

\* d in s
Contains(s, d) == Occurrences(s, d) # {}

\* str.splitlines() on "\n"-terminated lines
SplitLines(text) ==
    IF text = "" THEN << >>
    ELSE LET p == Split(text, "\n")
         IN  IF p[Len(p)] = "" THEN SubSeq(p, 1, Len(p) - 1) ELSE p

\* d.join(ls)
RECURSIVE JoinLinesWith(_, _)
JoinLinesWith(ls, d) ==
    IF Len(ls) = 0 THEN ""
    ELSE IF Len(ls) = 1 THEN ls[1]
    ELSE ls[1] \o d \o JoinLinesWith(Tail(ls), d)

\* "\n".join(ls)
JoinLines(ls) == JoinLinesWith(ls, "\n")

\* a > b on str
RECURSIVE StrGreaterFrom(_, _, _)
StrGreaterFrom(a, b, i) ==
    IF i > Len(a) THEN FALSE
    ELSE IF i > Len(b) THEN TRUE
    ELSE IF Ord(Ch(a, i)) # Ord(Ch(b, i)) THEN Ord(Ch(a, i)) > Ord(Ch(b, i))
    ELSE StrGreaterFrom(a, b, i + 1)

StrGreater(a, b) == StrGreaterFrom(a, b, 1)

\* int(s) succeeds: an optional sign and decimal digits
IsIntLiteral(s) ==
    LET body == IF Len(s) > 0 /\ Ch(s, 1) \in {"+", "-"} THEN SubSeq(s, 2, Len(s)) ELSE s
    IN  IsDigit(body)

RECURSIVE DigitsValue(_, _, _)
DigitsValue(s, i, acc) ==
    IF i > Len(s) THEN acc ELSE DigitsValue(s, i + 1, acc * 10 + DigitVal(Ch(s, i)))

\* int(s)
IntOf(s) ==
    IF Ch(s, 1) = "-" THEN 0 - DigitsValue(s, 2, 0)
    ELSE IF Ch(s, 1) = "+" THEN DigitsValue(s, 2, 0)
    ELSE DigitsValue(s, 1, 0)

RECURSIVE NatStr(_)
NatStr(n) == IF n < 10 THEN Ch(Digits, n + 1) ELSE NatStr(n \div 10) \o Ch(Digits, (n % 10) + 1)

\* str(n)
StrOfInt(n) == IF n < 0 THEN "-" \o NatStr(0 - n) ELSE NatStr(n)

-----------------------------------------------------------------------------
(* utils/srt_parser.py: block model, parser, serializer, validator         *)

SRTBlock(index, start, end, lines) ==
    [index |-> index, start |-> start, end |-> end, lines |-> lines]

\* SRTBlock.text
BlockText(b) == JoinLines(b.lines)

\* _parse_timestamp_line: the pair <<start, end>>, or None
ParseTimestampLine(line) ==
    IF ~Contains(line, "-->") THEN None
    ELSE Only({ IF Len(parts) # 2 THEN None
                ELSE IF Strip(parts[1]) = "" \/ Strip(parts[2]) = "" THEN None
                ELSE << Strip(parts[1]), Strip(parts[2]) >> :
                parts \in { Split(line, "-->") } })

RECURSIVE SkipBlankLines(_, _)
SkipBlankLines(lines, i) ==
    IF i <= Len(lines) /\ IsBlank(lines[i]) THEN SkipBlankLines(lines, i + 1) ELSE i

\* a scan that gives the block up at the first blank line
RECURSIVE ScanUntilBlank(_, _, _)
ScanUntilBlank(lines, i, payload) ==
    IF i > Len(lines) THEN [i |-> i, start |-> "", end |-> "", payload |-> payload]
    ELSE IF IsBlank(lines[i]) THEN [i |-> i, start |-> "", end |-> "", payload |-> payload]
    ELSE LET ts == ParseTimestampLine(Strip(lines[i]))
         IN  IF ts = None THEN ScanUntilBlank(lines, i + 1, Append(payload, lines[i]))
             ELSE [i |-> i + 1, start |-> ts[1], end |-> ts[2], payload |-> payload]

\* the loop of lines 130-143: accumulate lines until a timestamp line is seen
RECURSIVE ScanForTimestamp(_, _, _)
ScanForTimestamp(lines, i, payload) ==
    IF i > Len(lines) THEN [i |-> i, start |-> "", end |-> "", payload |-> payload]
    ELSE IF IsBlank(lines[i]) THEN ScanForTimestamp(lines, i + 1, Append(payload, ""))
    ELSE LET ts == ParseTimestampLine(Strip(lines[i]))
         IN  IF ts = None THEN ScanForTimestamp(lines, i + 1, Append(payload, lines[i]))
             ELSE [i |-> i + 1, start |-> ts[1], end |-> ts[2], payload |-> payload]

\* the loop of lines 146-148: payload lines up to a blank line or the end
RECURSIVE CollectPayload(_, _, _)
CollectPayload(lines, i, payload) ==
    IF i <= Len(lines) /\ ~IsBlank(lines[i])
    THEN CollectPayload(lines, i + 1, Append(payload, lines[i]))
    ELSE [i |-> i, payload |-> payload]

\* a block head that never reads the first line as an index
BlockHeadWithoutIndex(first_line) ==
    Only({ IF ts # None
           THEN [idx |-> None, start |-> ts[1], end |-> ts[2], payload |-> << >>]
           ELSE [idx |-> None, start |-> "", end |-> "", payload |-> << first_line >>] :
           ts \in { ParseTimestampLine(first_line) } })

\* lines 105-126: the first non-empty line is a timestamp, an index or text
BlockHead(first_line) ==
    Only({ IF ts # None
           THEN [idx |-> None, start |-> ts[1], end |-> ts[2], payload |-> << >>]
           ELSE IF IsIntLiteral(first_line)
           THEN [idx |-> Some(IntOf(first_line)), start |-> "", end |-> "", payload |-> << >>]
           ELSE [idx |-> None, start |-> "", end |-> "", payload |-> << first_line >>] :
           ts \in { ParseTimestampLine(first_line) } })

\* lines 128-143: the timestamp, from the head or from the lines after it
BlockTiming(lines, i, head) ==
    IF head.start = "" /\ head.end = ""
    THEN ScanForTimestamp(lines, i + 1, head.payload)
    ELSE [i |-> i + 1, start |-> head.start, end |-> head.end, payload |-> head.payload]

\* one iteration of the outer while loop, from the first non-blank line i:
\* the cursor after the block and the blocks accepted so far
ParseBlockAt(lines, i, acc) ==
    LET head == BlockHead(Strip(lines[i]))
        timed == BlockTiming(lines, i, head)
        body == CollectPayload(lines, timed.i, timed.payload)
    IN  [next |-> IF body.i <= Len(lines) /\ IsBlank(lines[body.i])
                  THEN body.i + 1 ELSE body.i,
         acc |-> IF timed.start # "" /\ timed.end # ""
                 THEN Append(acc, SRTBlock(head.idx, timed.start, timed.end, body.payload))
                 ELSE acc]

RECURSIVE ParseFrom(_, _, _)
ParseFrom(lines, i0, acc) ==
    Only({ IF i > Len(lines) THEN acc
           ELSE Only({ ParseFrom(lines, step.next, step.acc) :
                       step \in { ParseBlockAt(lines, i, acc) } }) :
           i \in { SkipBlankLines(lines, i0) } })

parse_srt_blocks(text) == Only({ ParseFrom(lines, 1, << >>) : lines \in { SplitLines(text) } })

\* blocks_to_text
RECURSIVE OutLines(_, _)
OutLines(bs, first) ==
    IF Len(bs) = 0 THEN << >>
    ELSE LET b == bs[1]
         IN  (IF first THEN << >> ELSE << "" >>)
             \o (IF b.index # None THEN << StrOfInt(b.index[1]) >> ELSE << >>)
             \o << b.start \o " --> " \o b.end >>
             \o b.lines
             \o OutLines(Tail(bs), FALSE)

\* a serializer that puts no blank line between blocks
RECURSIVE OutLinesUnseparated(_)
OutLinesUnseparated(bs) ==
    IF Len(bs) = 0 THEN << >>
    ELSE LET b == bs[1]
         IN  (IF b.index # None THEN << StrOfInt(b.index[1]) >> ELSE << >>)
             \o << b.start \o " --> " \o b.end >>
             \o b.lines
             \o OutLinesUnseparated(Tail(bs))

blocks_to_text_unseparated(bs) ==
    LET out_lines == OutLinesUnseparated(bs)
    IN  JoinLines(out_lines) \o (IF Len(out_lines) > 0 THEN "\n" ELSE "")

blocks_to_text(bs) ==
    LET out_lines == OutLines(bs, TRUE)
    IN  JoinLines(out_lines) \o (IF Len(out_lines) > 0 THEN "\n" ELSE "")

\* validate_srt._looks_like_time
looks_like_time(t) ==
    LET parts == Split(t, ":")
    IN  IF Len(parts) # 3 THEN FALSE
        ELSE IF ~Contains(parts[3], ",") THEN FALSE
        ELSE LET sm == SplitOnce(parts[3], ",")
             IN  IsDigit(parts[1]) /\ IsDigit(parts[2]) /\ IsDigit(sm[1]) /\ IsDigit(sm[2])

\* the diagnostics of the loop of lines 195-206, in order
RECURSIVE TimeErrors(_, _)
TimeErrors(bs, i) ==
    IF i > Len(bs) THEN << >>
    ELSE (IF ~(looks_like_time(bs[i].start) /\ looks_like_time(bs[i].end))
          THEN << [kind |-> "timestamp_shape", block |-> i] >> ELSE << >>)
         \o (IF StrGreater(bs[i].start, bs[i].end)
             THEN << [kind |-> "start_after_end", block |-> i] >> ELSE << >>)
         \o TimeErrors(bs, i + 1)

\* the diagnostics of the loop of lines 209-217, in order
RECURSIVE IndexErrors(_, _, _)
IndexErrors(bs, i, last_index) ==
    IF i > Len(bs) THEN << >>
    ELSE IF bs[i].index = None THEN IndexErrors(bs, i + 1, last_index)
    ELSE (IF last_index # None /\ bs[i].index[1] < last_index[1]
          THEN << [kind |-> "index_order", block |-> i] >> ELSE << >>)
         \o IndexErrors(bs, i + 1, bs[i].index)

\* a validator without the check for an empty parse
validate_srt_unguarded(text) ==
    LET bs == parse_srt_blocks(text)
        errs == TimeErrors(bs, 1) \o IndexErrors(bs, 1, None)
    IN  [ok |-> Len(errs) = 0, errors |-> errs]

validate_srt(text) ==
    LET bs == parse_srt_blocks(text)
    IN  IF Len(bs) = 0
        THEN [ok |-> FALSE, errors |-> << [kind |-> "no_blocks", block |-> 0] >>]
        ELSE LET errs == TimeErrors(bs, 1) \o IndexErrors(bs, 1, None)
             IN  [ok |-> Len(errs) = 0, errors |-> errs]

-----------------------------------------------------------------------------
(* utils/srt_parser.py: post-processing of a block sequence                *)

\* int(hh) * 3600 + int(mm) * 60 + int(ss) + int(ms) / 1000.0, in ms
ClockValue(hh, mm, ss, ms) ==
    IF ~(IsIntLiteral(hh) /\ IsIntLiteral(mm) /\ IsIntLiteral(ss) /\ IsIntLiteral(ms))
    THEN None
    ELSE Some((IntOf(hh) * 3600 + IntOf(mm) * 60 + IntOf(ss)) * 1000 + IntOf(ms))

\* _timestamp_to_seconds, in ms: Some(ms), or None where the code raises
\* (int() accepts surrounding whitespace)
timestamp_to_seconds(ts) ==
    Only({ IF Len(parts) # 3 THEN None
           ELSE Only({ IF Len(sm) # 2 THEN None
                       ELSE ClockValue(Strip(parts[1]), Strip(parts[2]),
                                       Strip(sm[1]), Strip(sm[2])) :
                       sm \in { SplitOnce(parts[3], ",") } }) :
           parts \in { Split(ts, ":") } })

\* f"{n:02d}" and f"{n:03d}"
Pad2(n) == IF n < 10 THEN "0" \o StrOfInt(n) ELSE StrOfInt(n)
Pad3(n) == IF n < 10 THEN "00" \o StrOfInt(n)
           ELSE IF n < 100 THEN "0" \o StrOfInt(n) ELSE StrOfInt(n)

\* _seconds_to_timestamp, from ms
seconds_to_timestamp(sec) ==
    LET total_ms == IF sec < 0 THEN 0 ELSE sec
        ms == total_ms % 1000
        total_s == total_ms \div 1000
        s == total_s % 60
        total_m == total_s \div 60
        m == total_m % 60
        h == total_m \div 60
    IN  Pad2(h) \o ":" \o Pad2(m) \o ":" \o Pad2(s) \o "," \o Pad3(ms)

\* a fill that closes only half of a short gap
FilledEndHalfGap(s, i, th) ==
    LET cur_end == timestamp_to_seconds(s[i].end)
        next_start == timestamp_to_seconds(s[i + 1].start)
    IN  IF cur_end = None \/ next_start = None THEN s[i].end
        ELSE IF 0 < next_start[1] - cur_end[1] /\ next_start[1] - cur_end[1] < th
             THEN seconds_to_timestamp(cur_end[1] + (next_start[1] - cur_end[1]) \div 2)
             ELSE s[i].end

\* a fill that also closes a gap equal to the threshold (`gap <= threshold`)
FilledEndInclusive(s, i, th) ==
    LET cur_end == timestamp_to_seconds(s[i].end)
        next_start == timestamp_to_seconds(s[i + 1].start)
    IN  IF cur_end = None \/ next_start = None THEN s[i].end
        ELSE IF 0 < next_start[1] - cur_end[1] /\ next_start[1] - cur_end[1] <= th
             THEN s[i + 1].start
             ELSE s[i].end

\* a fill that extends to the end of the next block (`cur.end = nxt.end`)
FilledEndToNextEnd(s, i, th) ==
    LET cur_end == timestamp_to_seconds(s[i].end)
        next_start == timestamp_to_seconds(s[i + 1].start)
    IN  IF cur_end = None \/ next_start = None THEN s[i].end
        ELSE IF 0 < next_start[1] - cur_end[1] /\ next_start[1] - cur_end[1] < th
             THEN s[i + 1].end
             ELSE s[i].end

\* fill_short_gaps: the end of block i after the loop body for the pair
\* (i, i + 1). The body reads cur.end and nxt.start only, and no iteration
\* writes a start or the end of a later block, so each pair is decided on
\* the values the sequence had at the call.
FilledEnd(s, i, th) ==
    LET cur_end == timestamp_to_seconds(s[i].end)
        next_start == timestamp_to_seconds(s[i + 1].start)
    IN  IF cur_end = None \/ next_start = None THEN s[i].end
        ELSE IF 0 < next_start[1] - cur_end[1] /\ next_start[1] - cur_end[1] < th
             THEN s[i + 1].start
             ELSE s[i].end

fill_short_gaps(s, th) ==
    IF Len(s) < 2 THEN s
    ELSE [i \in 1..Len(s) |->
            IF i < Len(s) THEN [s[i] EXCEPT !.end = FilledEnd(s, i, th)] ELSE s[i]]

Max(a, b) == IF a >= b THEN a ELSE b
Min(a, b) == IF a <= b THEN a ELSE b

\* text.replace("\n", " ")
ReplaceNewlines(t) == JoinLinesWith(Split(t, "\n"), " ")

\* _target_duration_for_text, in ms
target_duration_for_text(text, base_min) ==
    LET stripped == Strip(ReplaceNewlines(text))
        length == Len(stripped)
    IN  IF stripped = "" THEN base_min
        ELSE IF length <= 10 THEN base_min
        ELSE IF length <= 25 THEN Max(base_min, 1300)
        ELSE IF length <= 40 THEN Max(base_min, 1700)
        ELSE Max(base_min, 2000)

\* an extension to the target duration that ignores the next block's start
EnforcedEndUncapped(s, i, min_s) ==
    LET cur == s[i]
        start_sec == timestamp_to_seconds(cur.start)
        end_sec == timestamp_to_seconds(cur.end)
    IN  IF start_sec = None \/ end_sec = None THEN cur.end
        ELSE LET duration == end_sec[1] - start_sec[1]
                 target == target_duration_for_text(BlockText(cur), min_s)
                 desired_end == start_sec[1] + target
                 new_end_sec == IF i < Len(s) THEN desired_end ELSE end_sec[1]
             IN  IF duration <= 0 THEN cur.end
                 ELSE IF duration >= target THEN cur.end
                 ELSE IF new_end_sec > end_sec[1] THEN seconds_to_timestamp(new_end_sec)
                 ELSE cur.end

\* enforce_min_duration: the end of block i after the loop body for block i
EnforcedEnd(s, i, min_s) ==
    LET cur == s[i]
        start_sec == timestamp_to_seconds(cur.start)
        end_sec == timestamp_to_seconds(cur.end)
    IN  IF start_sec = None \/ end_sec = None THEN cur.end
        ELSE LET duration == end_sec[1] - start_sec[1]
                 target == target_duration_for_text(BlockText(cur), min_s)
                 desired_end == start_sec[1] + target
                 nxt == IF i < Len(s) THEN timestamp_to_seconds(s[i + 1].start) ELSE None
                 next_start == IF nxt = None THEN desired_end ELSE nxt[1]
                 new_end_sec == IF i < Len(s) THEN Min(desired_end, next_start)
                                ELSE end_sec[1]
             IN  IF duration <= 0 THEN cur.end
                 ELSE IF duration >= target THEN cur.end
                 ELSE IF new_end_sec > end_sec[1] THEN seconds_to_timestamp(new_end_sec)
                 ELSE cur.end

\* the loop of lines 437-475; iteration i reads block i and the start of
\* block i + 1, neither of which an earlier iteration has written
enforce_min_duration(s, min_s) ==
    [i \in 1..Len(s) |-> [s[i] EXCEPT !.end = EnforcedEnd(s, i, min_s)]]

\* a merge that joins the two texts without trimming them first
merge_with_next_untrimmed(self, nxt) ==
    LET left == BlockText(self)
        right == BlockText(nxt)
        merged == Strip(left \o (IF left # "" /\ right # "" THEN " " ELSE "") \o right)
    IN  [self EXCEPT !.lines = IF merged # "" THEN << merged >> ELSE << >>,
                     !.end = nxt.end]

\* SRTBlock.merge_with_next, sep = " "
merge_with_next(self, nxt) ==
    LET left == Strip(BlockText(self))
        right == Strip(BlockText(nxt))
        merged == Strip(left \o (IF left # "" /\ right # "" THEN " " ELSE "") \o right)
    IN  [self EXCEPT !.lines = IF merged # "" THEN << merged >> ELSE << >>,
                     !.end = nxt.end]

\* the condition of lines 283-288
ShouldMerge(prev, cur, maxlen, exc) ==
    LET cur_txt == Strip(BlockText(cur))
    IN  /\ cur_txt # ""
        /\ Len(cur_txt) <= maxlen
        /\ cur_txt \notin exc
        /\ prev.end = cur.start

RECURSIVE MergeFrom(_, _, _, _, _)
MergeFrom(s, i, out, maxlen, exc) ==
    IF i > Len(s) THEN out
    ELSE LET prev == out[Len(out)]
             cur == s[i]
         IN  IF ShouldMerge(prev, cur, maxlen, exc)
             THEN MergeFrom(s, i + 1, [out EXCEPT ![Len(out)] = merge_with_next(prev, cur)],
                            maxlen, exc)
             ELSE MergeFrom(s, i + 1, Append(out, cur), maxlen, exc)

merge_short_adjacent_blocks(s, maxlen, excs) ==
    LET exc == { Strip(e) : e \in { x \in excs : Strip(x) # "" } }
    IN  IF Len(s) < 2 THEN s ELSE MergeFrom(s, 2, << s[1] >>, maxlen, exc)

-----------------------------------------------------------------------------
(* The documents the parser is run on: candidate blocks written one after  *)
(* the other with one or more blank lines between them.                    *)

MaxChunks == 3
\* the blank lines written between two candidate blocks: one empty line, or
\* an empty line and a line of whitespace
Separators == { << "" >>, << "", " " >> }

\* kind "well": optional integer index line, timestamp line, payload lines.
\* kind "malformed": text or an index line with no timestamp line.
Catalogue == <<
    [kind |-> "well", lines |-> << "34", "00:00:01,000 --> 00:00:04,000", "Hello, world!" >>],
    [kind |-> "well", lines |-> << "00:00:05,000 --> 00:00:07,000", "Second line.",
                                   "With two lines." >>],
    [kind |-> "well", lines |-> << "035", " 00:00:07,500-->00:00:08,000 ", " 42 " >>],
    [kind |-> "well", lines |-> << "1", "00:00:05,000 --> 00:00:02,000", "Bad" >>],
    [kind |-> "well", lines |-> << "2", "10:00:00,000 --> 9:00:00,000", "a --> b" >>],
    [kind |-> "malformed", lines |-> << "junk" >>],
    [kind |-> "malformed", lines |-> << "7", "no time" >>] >>

ChunkIds == 1..Len(Catalogue)

Documents == UNION { [1..n -> ChunkIds] : n \in 1..MaxChunks }

RECURSIVE DocLines(_, _)
DocLines(cs, k) ==
    IF Len(cs) = 0 THEN << >>
    ELSE Catalogue[cs[1]].lines
         \o (IF Len(cs) > 1 THEN k ELSE << >>)
         \o DocLines(Tail(cs), k)

Render(cs, k) ==
    LET ls == DocLines(cs, k) IN JoinLines(ls) \o (IF Len(ls) > 0 THEN "\n" ELSE "")

IsWell(c) == Catalogue[c].kind = "well"

WellOnly(cs) == SelectSeq(cs, IsWell)

PostIdle ==
    /\ seq = << >> /\ before = << >> /\ op = "none"
    /\ threshold = 0 /\ min_seconds = 0 /\ max_len = 0 /\ exceptions = {}
    /\ start_index = 1

ToolIdle ==
    /\ raw_sents = << >> /\ min_chars = 0 /\ preferred_max_chars = 0
    /\ merged_sents = << >> /\ final = << >>
    /\ duration_text = "" /\ duration_seconds = 0
    /\ content = "" /\ chunk = 0
    /\ clip_start = 0 /\ clip_end = 0 /\ output = << >>

GenerateIdle == data = << >> /\ speaker = 0 /\ drop_non_speech = FALSE /\ ToolIdle

AlignIdle ==
    /\ words = << >> /\ phrases = << >> /\ p_idx = 0 /\ w_idx = 0
    /\ phrase_words = << >> /\ taken = << >> /\ results = << >>
    /\ GenerateIdle

Init ==
    /\ chunks \in Documents
    /\ sep \in Separators
    /\ srt_text = Render(chunks, sep)
    /\ blocks = << >> /\ round_trip = "" /\ blocks2 = << >>
    /\ ok = FALSE /\ errors = << >>
    /\ pc = "text"
    /\ PostIdle /\ AlignIdle

\* blocks = parse_srt_blocks(sample)
ParseSrtBlocks ==
    /\ pc = "text"
    /\ blocks' = parse_srt_blocks(srt_text)
    /\ pc' = "parsed"
    /\ UNCHANGED <<chunks, sep, srt_text, round_trip, blocks2, ok, errors, postVars, alignVars, toolVars>>

\* round_trip = blocks_to_text(blocks)
BlocksToText ==
    /\ pc = "parsed"
    /\ round_trip' = blocks_to_text(blocks)
    /\ pc' = "serialized"
    /\ UNCHANGED <<chunks, sep, srt_text, blocks, blocks2, ok, errors, postVars, alignVars, toolVars>>

\* the serialized text is parsed again (validate_srt(merged_text) does so)
ReparseRoundTrip ==
    /\ pc = "serialized"
    /\ blocks2' = parse_srt_blocks(round_trip)
    /\ pc' = "reparsed"
    /\ UNCHANGED <<chunks, sep, srt_text, blocks, round_trip, ok, errors, postVars, alignVars, toolVars>>

\* ok, errors = validate_srt(sample)
ValidateSrt ==
    /\ pc = "reparsed"
    /\ LET v == validate_srt(srt_text) IN ok' = v.ok /\ errors' = v.errors
    /\ pc' = "validated"
    /\ UNCHANGED <<chunks, sep, srt_text, blocks, round_trip, blocks2, postVars, alignVars, toolVars>>

Next == ParseSrtBlocks \/ BlocksToText \/ ReparseRoundTrip \/ ValidateSrt

Spec == Init /\ [][Next]_vars

\* renumber_blocks
renumber_blocks(s, start_idx) ==
    [i \in 1..Len(s) |-> [s[i] EXCEPT !.index = Some(start_idx + i - 1)]]

\* regular expressions of normalize_english_pronoun_i
UpperLetters == "ABCDEFGHIJKLMNOPQRSTUVWXYZ"
LowerLetters == "abcdefghijklmnopqrstuvwxyz"

LetterPos(c, alphabet) ==
    IF \E k \in 1..Len(alphabet) : Ch(alphabet, k) = c
    THEN CHOOSE k \in 1..Len(alphabet) : Ch(alphabet, k) = c
    ELSE 0

\* str.lower on one character, and on a string
LowerChar(c) == IF LetterPos(c, UpperLetters) > 0 THEN Ch(LowerLetters, LetterPos(c, UpperLetters)) ELSE c

RECURSIVE Lower(_)
Lower(t) == IF t = "" THEN "" ELSE LowerChar(Ch(t, 1)) \o Lower(SubSeq(t, 2, Len(t)))

\* \w
IsWordChar(c) ==
    LetterPos(c, UpperLetters) > 0 \/ LetterPos(c, LowerLetters) > 0 \/ IsDigitChar(c) \/ c = "_"

\* is position k of t inside t and a word character
WordAt(t, k) == k >= 1 /\ k <= Len(t) /\ IsWordChar(Ch(t, k))

\* \s* from position k: the first position that holds no white space
RECURSIVE SkipSpaces(_, _)
SkipSpaces(t, k) == IF k <= Len(t) /\ IsSpaceChar(Ch(t, k)) THEN SkipSpaces(t, k + 1) ELSE k

\* the alternatives (m|ve|ll|d|re|s), in the order the expression tries them
ContractionSuffixes == << "m", "ve", "ll", "d", "re", "s" >>

\* the mapping of repl
ContractionFor(suffix) ==
    CASE suffix = "m" -> "I'm"
      [] suffix = "ve" -> "I've"
      [] suffix = "ll" -> "I'll"
      [] suffix = "d" -> "I'd"
      [] suffix = "re" -> "I'm"
      [] suffix = "s" -> "I's"

\* _I_CONTRACTION_RE matched at position p (IGNORECASE): None, or the last
\* position of the match and the lowered suffix
ContractionMatch(t, p) ==
    IF ~(Ch(t, p) \in { "i", "I" } /\ ~WordAt(t, p - 1)) THEN None
    ELSE LET q == SkipSpaces(t, p + 1)
             r == SkipSpaces(t, q + 1)
             fits == { k \in 1..Len(ContractionSuffixes) :
                         /\ r + Len(ContractionSuffixes[k]) - 1 <= Len(t)
                         /\ Lower(SubSeq(t, r, r + Len(ContractionSuffixes[k]) - 1))
                                = ContractionSuffixes[k]
                         /\ ~WordAt(t, r + Len(ContractionSuffixes[k])) }
         IN  IF q > Len(t) \/ Ch(t, q) # "'" \/ fits = {} THEN None
             ELSE LET k == CHOOSE k \in fits : \A x \in fits : k <= x
                  IN  Some([last |-> r + Len(ContractionSuffixes[k]) - 1,
                            suffix |-> ContractionSuffixes[k]])

\* _I_CONTRACTION_RE.sub(repl, text), from position p on
RECURSIVE SubContractions(_, _)
SubContractions(t, p) ==
    IF p > Len(t) THEN ""
    ELSE Only({ IF m = None THEN Ch(t, p) \o SubContractions(t, p + 1)
                ELSE ContractionFor(m[1].suffix) \o SubContractions(t, m[1].last + 1) :
                m \in { ContractionMatch(t, p) } })

\* _I_BARE_RE matched at position p
BareAt(t, p) == Ch(t, p) = "i" /\ ~WordAt(t, p - 1) /\ ~WordAt(t, p + 1)

\* _I_BARE_RE.sub("I", text)
SubBare(t) ==
    LET hits == { p \in 1..Len(t) : BareAt(t, p) }
        RECURSIVE From(_)
        From(p) == IF p > Len(t) THEN ""
                   ELSE (IF p \in hits THEN "I" ELSE Ch(t, p)) \o From(p + 1)
    IN  From(1)

\* a fix that leaves the bare pronoun alone
fix_contractions_only(text) == SubContractions(text, 1)

\* normalize_english_pronoun_i._fix
fix(text) == SubBare(SubContractions(text, 1))

\* normalize_english_pronoun_i
normalize_english_pronoun_i(s) ==
    [i \in 1..Len(s) |->
        IF s[i].lines = << >> THEN s[i]
        ELSE [s[i] EXCEPT !.lines = [k \in 1..Len(s[i].lines) |-> fix(s[i].lines[k])]]]

-----------------------------------------------------------------------------
(* Post-processing: each operation is called on a block sequence, which it *)
(* changes in place; `before` keeps the sequence as it was at the call.    *)

ParseIdle ==
    /\ chunks = << >> /\ sep = << >> /\ srt_text = ""
    /\ blocks = << >> /\ round_trip = "" /\ blocks2 = << >>
    /\ ok = FALSE /\ errors = << >> /\ pc = "idle"

\* Sequences of 1..n blocks; block i has index 10 + i and its start, end and
\* lines drawn from the given sets.
BlockSeqs(n, starts, ends, liness) ==
    UNION { { [i \in 1..k |-> SRTBlock(Some(10 + i), f[i][1], f[i][2], f[i][3])] :
              f \in [1..k -> starts \X ends \X liness] } : k \in 1..n }

MaxGapBlocks == 3

\* 0.4 s, 1.2 s and a start that is no timestamp
GapStarts == { "00:00:00,400", "00:00:01,200", "00:00:01" }
\* 0.4 s, 0.8 s, and 0.8 s written without padding
GapEnds == { "00:00:00,400", "00:00:00,800", "0:0:0,800" }
\* the default 0.8 s and 1.2 s
Thresholds == { 800, 1200 }

InitGaps ==
    /\ seq \in BlockSeqs(MaxGapBlocks, GapStarts, GapEnds, { << "Hi" >> })
    /\ before = seq /\ op = "none"
    /\ threshold \in Thresholds
    /\ min_seconds = 0 /\ max_len = 0 /\ exceptions = {}
    /\ start_index = 1
    /\ ParseIdle /\ AlignIdle

FillShortGaps ==
    /\ before' = seq
    /\ seq' = fill_short_gaps(seq, threshold)
    /\ op' = "fill_short_gaps"
    /\ UNCHANGED <<threshold, min_seconds, max_len, exceptions, start_index, parseVars, alignVars, toolVars>>

NextGaps == FillShortGaps

SpecGaps == InitGaps /\ [][NextGaps]_vars

MaxDurBlocks == 2

DurStarts == { "00:00:00,000", "00:00:01,000", "00:00:02,000" }
DurEnds == { "00:00:00,500", "00:00:02,500" }
\* texts of at most 10, of 11..25 and of more than 40 characters
DurLines == { << "OK" >>, << "i am here now" >>,
              << "one two three four five", "six seven eight nine ten" >> }
DefaultMinSeconds == 1000

InitDuration ==
    /\ seq \in BlockSeqs(MaxDurBlocks, DurStarts, DurEnds, DurLines)
    /\ before = seq /\ op = "none"
    /\ min_seconds = DefaultMinSeconds
    /\ threshold = 0 /\ max_len = 0 /\ exceptions = {}
    /\ start_index = 1
    /\ ParseIdle /\ AlignIdle

EnforceMinDuration ==
    /\ before' = seq
    /\ seq' = enforce_min_duration(seq, min_seconds)
    /\ op' = "enforce_min_duration"
    /\ UNCHANGED <<threshold, min_seconds, max_len, exceptions, start_index, parseVars, alignVars, toolVars>>

NextDuration == EnforceMinDuration

SpecDuration == InitDuration /\ [][NextDuration]_vars

\* enforce_min_duration on timestamps whose seconds field carries a sign,
\* which int() reads as written
InitSignedDuration ==
    /\ seq \in BlockSeqs(MaxDurBlocks,
                         { "00:00:-10,000", "00:00:-5,000", "00:00:01,000" },
                         { "00:00:-10,500", "00:00:02,500" },
                         { << "OK" >>, << "i am here now" >> })
    /\ before = seq /\ op = "none"
    /\ min_seconds = DefaultMinSeconds
    /\ threshold = 0 /\ max_len = 0 /\ exceptions = {}
    /\ start_index = 1
    /\ ParseIdle /\ AlignIdle

NextSignedDuration == EnforceMinDuration

SpecSignedDuration == InitSignedDuration /\ [][NextSignedDuration]_vars

MaxMergeBlocks == 3

MergeStarts == { "00:00:01,000", "00:00:02,000" }
MergeEnds == { "00:00:02,000", "00:00:03,000" }
MergeLines == { << "Thank" >>, << "you" >>, << "OK" >>, << >> }
DefaultMaxLen == 3
\* the set of test_merge_short_adjacent_blocks_merges_when_adjacent, and one
\* whose entry is written with spaces around it
ExceptionSets == { { "OK", "Oh", "No", "Yes" }, { " OK " } }

InitMerge ==
    /\ seq \in BlockSeqs(MaxMergeBlocks, MergeStarts, MergeEnds, MergeLines)
    /\ before = seq /\ op = "none"
    /\ max_len = DefaultMaxLen
    /\ exceptions \in ExceptionSets
    /\ threshold = 0 /\ min_seconds = 0
    /\ start_index = 1
    /\ ParseIdle /\ AlignIdle

MergeShortAdjacentBlocks ==
    /\ before' = seq
    /\ seq' = merge_short_adjacent_blocks(seq, max_len, exceptions)
    /\ op' = "merge_short_adjacent_blocks"
    /\ UNCHANGED <<threshold, min_seconds, max_len, exceptions, start_index, parseVars, alignVars, toolVars>>

NextMerge == MergeShortAdjacentBlocks

SpecMerge == InitMerge /\ [][NextMerge]_vars

\* SRTBlock.merge_with_next called on the first block of a pair with the
\* second as argument; the method changes self in place and returns nothing
PairLines == { << "Thank" >>, << " you " >>, << "a ", "b" >>, << " " >>, << >>, << "", "OK" >> }
PairIndices == { None, Some(7) }

InitPair ==
    /\ seq \in { << SRTBlock(i1, "00:00:01,000", "00:00:02,000", l1),
                    SRTBlock(Some(3), st, "00:00:03,000", l2) >> :
                  <<i1, l1, st, l2>> \in PairIndices \X PairLines
                                         \X { "00:00:02,000", "00:00:02,500" } \X PairLines }
    /\ before = seq /\ op = "none"
    /\ max_len = 0 /\ exceptions = {} /\ threshold = 0 /\ min_seconds = 0
    /\ start_index = 1
    /\ ParseIdle /\ AlignIdle

MergeWithNext ==
    /\ op = "none"
    /\ before' = seq
    /\ seq' = [seq EXCEPT ![1] = merge_with_next(seq[1], seq[2])]
    /\ op' = "merge_with_next"
    /\ UNCHANGED <<threshold, min_seconds, max_len, exceptions, start_index, parseVars, alignVars, toolVars>>

NextPair == MergeWithNext

SpecPair == InitPair /\ [][NextPair]_vars

\* The post-processing operations called one after another, in any order, on
\* a sequence that starts in chronological order without overlaps.
MaxPipeBlocks == 2

PipeTimes == { 0, 500, 1000, 2000 }
PipeLines == { << "you" >>, << "i am here now" >> }

\* start(b) <= end(b) <= start(b_next), in ms
ChronologicalTimes(n) ==
    { f \in [1..(2 * n) -> PipeTimes] : \A i \in 1..(2 * n - 1) : f[i] <= f[i + 1] }

PipeSeqs ==
    UNION { { [i \in 1..k |-> SRTBlock(Some(10 + i), seconds_to_timestamp(f[2 * i - 1]),
                                       seconds_to_timestamp(f[2 * i]), l[i])] :
              <<f, l>> \in ChronologicalTimes(k) \X [1..k -> PipeLines] } :
            k \in 1..MaxPipeBlocks }

InitPipeline ==
    /\ seq \in PipeSeqs
    /\ before = seq /\ op = "none"
    /\ threshold = 800 /\ min_seconds = DefaultMinSeconds
    /\ max_len = DefaultMaxLen /\ exceptions = { "OK" }
    /\ start_index = 1
    /\ ParseIdle /\ AlignIdle

NormalizeEnglishPronounI ==
    /\ before' = seq
    /\ seq' = normalize_english_pronoun_i(seq)
    /\ op' = "normalize_english_pronoun_i"
    /\ UNCHANGED <<threshold, min_seconds, max_len, exceptions, start_index, parseVars, alignVars, toolVars>>

RenumberBlocks ==
    /\ before' = seq
    /\ seq' = renumber_blocks(seq, start_index)
    /\ op' = "renumber_blocks"
    /\ UNCHANGED <<threshold, min_seconds, max_len, exceptions, start_index, parseVars, alignVars, toolVars>>

NextPipeline ==
    \/ FillShortGaps
    \/ EnforceMinDuration
    \/ MergeShortAdjacentBlocks
    \/ NormalizeEnglishPronounI
    \/ RenumberBlocks

SpecPipeline == InitPipeline /\ [][NextPipeline]_vars

\* renumber_blocks called on blocks with absent, duplicate and non-contiguous
\* indices; block i is shown from second i to second i + 1. The second
\* payload is the one parse_srt_blocks returns for "junk", a blank line, and
\* a block "0 / timestamp line / World".
MaxRenumberBlocks == 2

RenumberIndices == { None, Some(10), Some(20) }
RenumberLines == { << "Hello" >>, << "junk", "", "0", "World" >> }
StartIndices == { 1, 5 }

RenumberSeqs ==
    UNION { { [i \in 1..k |-> SRTBlock(f[i][1], seconds_to_timestamp(1000 * i),
                                       seconds_to_timestamp(1000 * i + 1000), f[i][2])] :
              f \in [1..k -> RenumberIndices \X RenumberLines] } :
            k \in 1..MaxRenumberBlocks }

InitRenumber ==
    /\ seq \in RenumberSeqs
    /\ before = seq /\ op = "none"
    /\ start_index \in StartIndices
    /\ threshold = 0 /\ min_seconds = 0 /\ max_len = 0 /\ exceptions = {}
    /\ ParseIdle /\ AlignIdle

NextRenumber == RenumberBlocks

SpecRenumber == InitRenumber /\ [][NextRenumber]_vars

\* normalize_english_pronoun_i on its own
MaxNormalizeBlocks == 2

\* payloads: the lines of test_normalize_english_pronoun_i_basic, contractions
\* in upper case, with spaces around the apostrophe and with the suffixes re
\* and s, words that merely contain an i, two lines, and no line
NormalizeLines ==
    { << "i am here" >>, << "i'm tired" >>, << "i've been there" >>,
      << "I 'M in, i're late" >>, << "hi i ' ll it's i's", "if i'D i_ i'x" >>, << >> }

InitNormalize ==
    /\ seq \in UNION { { [i \in 1..k |-> SRTBlock(Some(i), seconds_to_timestamp(1000 * i),
                                                  seconds_to_timestamp(1000 * i + 1000), f[i])] :
                         f \in [1..k -> NormalizeLines] } :
                       k \in 1..MaxNormalizeBlocks }
    /\ before = seq /\ op = "none"
    /\ start_index = 1
    /\ threshold = 0 /\ min_seconds = 0 /\ max_len = 0 /\ exceptions = {}
    /\ ParseIdle /\ AlignIdle

NextNormalize == NormalizeEnglishPronounI

SpecNormalize == InitNormalize /\ [][NextNormalize]_vars

-----------------------------------------------------------------------------
(* utils/json_to_srt_sentences.py: align_sentences_to_words. The same loop *)
(* is align_segments_to_words of utils/azure_spacy_segmenter.py, which     *)
(* differs in the sentence splitter it calls. Times are in units of 0.1 ms, *)
(* so that times closer together than the tolerance of 1 ms can be told     *)
(* apart.                                                                   *)

Word(text, start, end) == [text |-> text, start |-> start, end |-> end]

\* split_display_into_sentences: cut after each of . ? !, strip, drop empties
split_display_into_sentences(display) ==
    LET cuts == { i \in 1..Len(display) : Ch(display, i) \in { ".", "?", "!" } }
        nth(k) == CHOOSE p \in cuts : Cardinality({ q \in cuts : q < p }) = k - 1
        n == Cardinality(cuts)
        from(k) == IF k = 1 THEN 1 ELSE nth(k - 1) + 1
        to(k) == IF k = n + 1 THEN Len(display) ELSE nth(k)
        pieces == [k \in 1..(n + 1) |-> Strip(SubSeq(display, from(k), to(k)))]
    IN  SelectSeq(pieces, LAMBDA t : t # "")

\* round(a / b) for a >= 0, b > 0: Python rounds halves to the even neighbour
RoundHalfEven(a, b) ==
    LET q == a \div b
        r == a % b
    IN  IF 2 * r < b THEN q
        ELSE IF 2 * r > b THEN q + 1
        ELSE IF q % 2 = 0 THEN q ELSE q + 1

\* the tolerance 0.001 s of lines 144 and 147
Eps == 10

\* the while loop of lines 144-149: the cursor after it
RECURSIVE CursorAfter(_, _, _)
CursorAfter(ws, i, p_end) ==
    IF i <= Len(ws) /\ ws[i].start < p_end + Eps THEN CursorAfter(ws, i + 1, p_end) ELSE i

\* p_start - 0.001 <= mid <= p_end + 0.001, with mid = (w.start + w.end) / 2.0
MidInWindow(w, p_start, p_end) ==
    /\ 2 * (p_start - Eps) <= w.start + w.end
    /\ w.start + w.end <= 2 * (p_end + Eps)

\* the while loop of lines 144-149: the words collected, from cursor i up to j - 1
CollectWords(ws, i, j, p_start, p_end) ==
    SelectSeq(SubSeq(ws, i, j - 1), LAMBDA w : MidInWindow(w, p_start, p_end))

SumLen(sents) == LET RECURSIVE S(_)
                     S(k) == IF k = 0 THEN 0 ELSE Len(sents[k]) + S(k - 1)
                 IN  S(Len(sents))

\* a count in which the last sentence takes its proportional share too
WordCountProportional(sents, i, n_words, word_pos) ==
    Min(Max(1, RoundHalfEven(Len(sents[i]) * n_words, SumLen(sents))),
        n_words - word_pos)

\* how many words the sentence at position i asks for (lines 172-178)
WordCount(sents, i, n_words, word_pos) ==
    IF i = Len(sents) THEN n_words - word_pos
    ELSE Min(Max(1, RoundHalfEven(Len(sents[i]) * n_words, SumLen(sents))),
             n_words - word_pos)

\* the for loop of lines 169-185: the segments and the word runs given to them
RECURSIVE Distribute(_, _, _, _, _)
Distribute(sents, pw, i, word_pos, acc) ==
    IF i > Len(sents) THEN acc
    ELSE IF sents[i] = "" THEN Distribute(sents, pw, i + 1, word_pos, acc)
    ELSE LET count == WordCount(sents, i, Len(pw), word_pos)
         IN  IF count = 0 THEN Distribute(sents, pw, i + 1, word_pos, acc)
             ELSE Distribute(sents, pw, i + 1, word_pos + count,
                     [segs |-> Append(acc.segs,
                                  << pw[word_pos + 1].start, pw[word_pos + count].end, sents[i] >>),
                      runs |-> Append(acc.runs, [first |-> word_pos + 1, count |-> count])])

\* the fallback of lines 155-159: one segment per sentence over the phrase window
WholePhrase(sents, p_start, p_end) == [k \in 1..Len(sents) |-> << p_start, p_end, sents[k] >>]

MaxWords == 4
MaxPhrases == 2

\* word spans (start, end), in order of start; one lies within the tolerance
\* after 1 s
WordSpans == << <<0, 3000>>, <<1000, 5000>>, <<3000, 6000>>, <<6000, 9000>>, <<9000, 15000>>,
               <<10005, 10006>>, <<12000, 16000>> >>
\* phrase windows (p_start, p_end), in order of start
Windows == << <<0, 10000>>, <<10001, 20000>>, <<11000, 20000>> >>
Displays == { "Hi.", "One two three four. No", "A. B. C.", "" }

\* the increasing index vectors of length k into 1..n
Increasing(k, n) == { f \in [1..k -> 1..n] : \A i \in 1..(k - 1) : f[i] < f[i + 1] }

WordLists ==
    UNION { { [i \in 1..k |-> Word("w", WordSpans[f[i]][1], WordSpans[f[i]][2])] :
              f \in Increasing(k, Len(WordSpans)) } : k \in 0..MaxWords }

PhraseLists ==
    UNION { UNION { { [i \in 1..k |-> << d[i], Windows[f[i]][1], Windows[f[i]][2] >>] :
                      d \in [1..k -> Displays] } :
                    f \in Increasing(k, Len(Windows)) } : k \in 0..MaxPhrases }

InitAlign ==
    /\ words \in WordLists
    /\ phrases \in PhraseLists
    /\ p_idx = 0 /\ w_idx = 1
    /\ phrase_words = << >> /\ taken = << >> /\ results = << >>
    /\ GenerateIdle
    /\ ParseIdle /\ PostIdle

\* `if not words or not phrases: return []`
AlignReturnEmpty ==
    /\ p_idx = 0 /\ Len(phrases) > 0
    /\ words = << >>
    /\ p_idx' = Len(phrases)
    /\ UNCHANGED <<words, phrases, w_idx, phrase_words, taken, results,
                   data, speaker, drop_non_speech, parseVars, postVars, toolVars>>

\* one iteration of `for display, p_start, p_end in phrases`
AlignPhrase ==
    /\ words # << >>
    /\ p_idx < Len(phrases)
    /\ LET display == phrases[p_idx + 1][1]
           p_start == phrases[p_idx + 1][2]
           p_end == phrases[p_idx + 1][3]
           cursor == CursorAfter(words, w_idx, p_end)
           pw == CollectWords(words, w_idx, cursor, p_start, p_end)
           sents == split_display_into_sentences(display)
           dist == Distribute(sents, pw, 1, 0, [segs |-> << >>, runs |-> << >>])
       IN  /\ w_idx' = cursor
           /\ phrase_words' = pw
           /\ IF sents = << >> THEN results' = results /\ taken' = << >>
              ELSE IF pw = << >>
                   THEN /\ results' = results \o WholePhrase(sents, p_start, p_end)
                        /\ taken' = << >>
              ELSE IF SumLen(sents) = 0 THEN results' = results /\ taken' = << >>
              ELSE results' = results \o dist.segs /\ taken' = dist.runs
    /\ p_idx' = p_idx + 1
    /\ UNCHANGED <<words, phrases, data, speaker, drop_non_speech, parseVars, postVars, toolVars>>

NextAlign == AlignReturnEmpty \/ AlignPhrase

SpecAlign == InitAlign /\ [][NextAlign]_vars

-----------------------------------------------------------------------------
(* utils/json_to_srt_sentences.py: to_seconds, format_ts,                  *)
(* load_words_and_displays, generate_srt_for_speaker. Times are in units   *)
(* of 0.1 ms; a call that raises yields None.                              *)

\* float(num) for a num of digits and dots, to four decimals; None where
\* float raises (no digit, or more than one dot)
FloatOf(num) ==
    LET dots == { i \in 1..Len(num) : Ch(num, i) = "." }
    IN  IF Cardinality(dots) > 1 \/ Len(num) = Cardinality(dots) THEN None
        ELSE LET d == IF dots = {} THEN Len(num) + 1 ELSE CHOOSE i \in dots : TRUE
                 whole == IF d = 1 THEN "" ELSE SubSeq(num, 1, d - 1)
                 rest == IF d >= Len(num) THEN "" ELSE SubSeq(num, d + 1, Len(num))
                 frac == SubSeq(rest \o "0000", 1, 4)
             IN  Some(DigitsValue(whole, 1, 0) * 10000 + DigitsValue(frac, 1, 0))

\* the for loop of to_seconds over pt[2:], from position i; got maps each
\* unit letter to the value read for it
RECURSIVE ToSecondsFrom(_, _, _, _)
ToSecondsFrom(pt, i, num, got) ==
    IF i > Len(pt) THEN Some(got["H"] * 3600 + got["M"] * 60 + got["S"])
    ELSE LET ch == Ch(pt, i)
         IN  IF IsDigitChar(ch) \/ ch = "." THEN ToSecondsFrom(pt, i + 1, num \o ch, got)
             ELSE IF ch \in { "H", "M", "S" }
             THEN IF FloatOf(num) = None THEN None
                  ELSE ToSecondsFrom(pt, i + 1, "", [got EXCEPT ![ch] = FloatOf(num)[1]])
             ELSE ToSecondsFrom(pt, i + 1, "", got)

\* to_seconds: raises unless pt starts with "PT"
to_seconds(pt) ==
    IF Len(pt) < 2 \/ SubSeq(pt, 1, 2) # "PT" THEN None
    ELSE ToSecondsFrom(pt, 3, "", [u \in { "H", "M", "S" } |-> 0])

\* format_ts
format_ts(t0) ==
    LET t == IF t0 < 0 THEN 0 ELSE t0
        h == t \div 36000000
        m == (t - h * 36000000) \div 600000
        s == (t - h * 36000000 - m * 600000) \div 10000
        ms == RoundHalfEven(t % 10000, 10)
        s1 == IF ms = 1000 THEN s + 1 ELSE s
        m1 == IF ms = 1000 /\ s1 = 60 THEN m + 1 ELSE m
        h1 == IF ms = 1000 /\ s1 = 60 /\ m1 = 60 THEN h + 1 ELSE h
    IN  Pad2(h1) \o ":" \o Pad2(IF m1 = 60 THEN 0 ELSE m1) \o ":"
        \o Pad2(IF s1 = 60 THEN 0 ELSE s1) \o "," \o Pad3(IF ms = 1000 THEN 0 ELSE ms)

\* list.sort(key=...): stable, ascending by key; keys[i] is the key of s[i]
SortByKey(s, keys) ==
    [k \in 1..Len(s) |->
        s[CHOOSE i \in 1..Len(s) :
            Cardinality({ j \in 1..Len(s) :
                \/ keys[j] < keys[i]
                \/ keys[j] = keys[i] /\ j < i }) = k - 1]]

\* the records load_words_and_displays does not skip (lines 81-85)
RecordsOf(d, spk) == SelectSeq(d, LAMBDA rec : rec.speaker = spk /\ rec.nBest # << >>)

\* a candidate that loses all its words when one of them does not convert
WordsOfCandidateAllOrNothing(cand) ==
    IF \E k \in 1..Len(cand.words) :
           to_seconds(cand.words[k].offset) = None \/ to_seconds(cand.words[k].duration) = None
    THEN << >>
    ELSE [k \in 1..Len(cand.words) |->
            Word(cand.words[k].word, to_seconds(cand.words[k].offset)[1],
                 to_seconds(cand.words[k].offset)[1] + to_seconds(cand.words[k].duration)[1])]

\* the words of one candidate whose offset and duration convert (lines 92-98)
WordsOfCandidate(cand) ==
    LET good == SelectSeq(cand.words,
                    LAMBDA w : to_seconds(w.offset) # None /\ to_seconds(w.duration) # None)
    IN  [k \in 1..Len(good) |->
            Word(good[k].word, to_seconds(good[k].offset)[1],
                 to_seconds(good[k].offset)[1] + to_seconds(good[k].duration)[1])]

RECURSIVE FlattenWords(_)
FlattenWords(recs) ==
    IF recs = << >> THEN << >>
    ELSE WordsOfCandidate(Head(recs).nBest[1]) \o FlattenWords(Tail(recs))

\* load_words_and_displays on the parsed JSON: the words and phrases of the
\* speaker, each sorted by start, or None when a phrase time does not convert
load_words_and_displays(d, spk) ==
    LET recs == RecordsOf(d, spk)
    IN  IF \E k \in 1..Len(recs) :
               to_seconds(recs[k].offset) = None \/ to_seconds(recs[k].duration) = None
        THEN None
        ELSE LET ws == FlattenWords(recs)
                 ps == [k \in 1..Len(recs) |->
                           << recs[k].nBest[1].display, to_seconds(recs[k].offset)[1],
                              to_seconds(recs[k].offset)[1] + to_seconds(recs[k].duration)[1] >>]
             IN  Some([words |-> SortByKey(ws, [k \in 1..Len(ws) |-> ws[k].start]),
                       phrases |-> SortByKey(ps, [k \in 1..Len(ps) |-> ps[k][2]])])

\* the segments one phrase adds (lines 151-185), given the words collected for it
PhraseSegments(display, pw, p_start, p_end) ==
    LET sents == split_display_into_sentences(display)
    IN  IF sents = << >> THEN << >>
        ELSE IF pw = << >> THEN WholePhrase(sents, p_start, p_end)
        ELSE IF SumLen(sents) = 0 THEN << >>
        ELSE Distribute(sents, pw, 1, 0, [segs |-> << >>, runs |-> << >>]).segs

\* the for loop of align_sentences_to_words from phrase k and word cursor i
RECURSIVE AlignFrom(_, _, _, _)
AlignFrom(ws, ps, k, i) ==
    IF k > Len(ps) THEN << >>
    ELSE LET cursor == CursorAfter(ws, i, ps[k][3])
         IN  PhraseSegments(ps[k][1], CollectWords(ws, i, cursor, ps[k][2], ps[k][3]),
                            ps[k][2], ps[k][3])
             \o AlignFrom(ws, ps, k + 1, cursor)

\* align_sentences_to_words
align_sentences_to_words(ws, ps) ==
    IF ws = << >> \/ ps = << >> THEN << >> ELSE AlignFrom(ws, ps, 1, 1)

\* str.rstrip()
RStrip(s) == IF LastNonSpace(s, Len(s)) < 1 THEN "" ELSE SubSeq(s, 1, LastNonSpace(s, Len(s)))

\* the four lines generate_srt_for_speaker appends for segment idx
SegmentLines(idx, seg) ==
    << StrOfInt(idx), format_ts(seg[1]) \o " --> " \o format_ts(seg[2]), seg[3], "" >>

RECURSIVE GeneratedLines(_, _)
GeneratedLines(segments, idx) ==
    IF idx > Len(segments) THEN << >>
    ELSE SegmentLines(idx, segments[idx]) \o GeneratedLines(segments, idx + 1)

\* generate_srt_for_speaker, from the words and phrases loaded: the
\* environment is not consulted
generate_srt_for_speaker(ws, ps) ==
    LET segments == align_sentences_to_words(ws, ps)
        lines == GeneratedLines(segments, 1)
    IN  RStrip(JoinLines(lines)) \o (IF lines # << >> THEN "\n" ELSE "")

\* the records of a timing file: the two of test_non_speech_filter.py
\* ("*music*", then "Hello world."), a record of another speaker, one without
\* candidates, one with a word whose offset does not convert and one whose
\* own offset does not convert
JsonRecords ==
    LET JsonWord(word, offset, duration) ==
            [word |-> word, offset |-> offset, duration |-> duration]
        Candidate(display, ws) == [display |-> display, words |-> ws]
        JsonRecord(spk, offset, duration, nBest) ==
            [speaker |-> spk, offset |-> offset, duration |-> duration, nBest |-> nBest]
    IN  { JsonRecord(1, "PT0S", "PT1S",
              << Candidate("*music*", << JsonWord("*music*", "PT0S", "PT1S") >>) >>),
          JsonRecord(1, "PT1S", "PT1S",
              << Candidate("Hello world.", << JsonWord("Hello", "PT1S", "PT0.5S"),
                                             JsonWord("world.", "PT1.5S", "PT0.5S") >>) >>),
          JsonRecord(2, "PT1M2S", "PT1.9996S",
              << Candidate("Bye.", << JsonWord("Bye.", "PT1M2S", "PT.5S") >>) >>),
          JsonRecord(1, "PT2S", "PT1S", << >>),
          JsonRecord(1, "PT3S", "PT1S",
              << Candidate("Oh. No", << JsonWord("Oh", "3S", "PT0.5S"),
                                       JsonWord("No", "PT3.5S", "PT0.2S") >>) >>),
          JsonRecord(1, "4S", "PT1S", << Candidate("Hm.", << >>) >>) }

MaxRecords == 2

JsonFiles == UNION { [1..k -> JsonRecords] : k \in 0..MaxRecords }

InitGenerate ==
    /\ data \in JsonFiles
    /\ speaker \in { 1, 2 }
    /\ drop_non_speech \in BOOLEAN
    /\ words = << >> /\ phrases = << >> /\ p_idx = 0 /\ w_idx = 0
    /\ phrase_words = << >> /\ taken = << >> /\ results = << >>
    /\ chunks = << >> /\ sep = << >> /\ srt_text = ""
    /\ blocks = << >> /\ round_trip = "" /\ blocks2 = << >>
    /\ ok = FALSE /\ errors = << >> /\ pc = "file"
    /\ PostIdle /\ ToolIdle

\* text = generate_srt_for_speaker(json_path, speaker)
GenerateSrtForSpeaker ==
    /\ pc = "file"
    /\ LET loaded == load_words_and_displays(data, speaker)
       IN  IF loaded = None
           THEN pc' = "raised" /\ UNCHANGED <<words, phrases, results, srt_text>>
           ELSE /\ words' = loaded[1].words
                /\ phrases' = loaded[1].phrases
                /\ results' = align_sentences_to_words(loaded[1].words, loaded[1].phrases)
                /\ srt_text' = generate_srt_for_speaker(loaded[1].words, loaded[1].phrases)
                /\ pc' = "generated"
    /\ UNCHANGED <<chunks, sep, blocks, round_trip, blocks2, ok, errors, p_idx, w_idx,
                   phrase_words, taken, data, speaker, drop_non_speech, postVars, toolVars>>

\* blocks = parse_srt_blocks(text), as the tests read the generated text
ParseGenerated ==
    /\ pc = "generated"
    /\ blocks' = parse_srt_blocks(srt_text)
    /\ pc' = "parsed"
    /\ UNCHANGED <<chunks, sep, srt_text, round_trip, blocks2, ok, errors, postVars, alignVars, toolVars>>

NextGenerate == GenerateSrtForSpeaker \/ ParseGenerated

SpecGenerate == InitGenerate /\ [][NextGenerate]_vars

-----------------------------------------------------------------------------
(* utils/azure_spacy_segmenter.py: _merge_short_sentences,                 *)
(* _split_long_segment and split_text_with_spacy from the sentences of the *)
(* sentence splitter on (spaCy itself is an input here).                   *)

\* a merge that returns the sentences as they came
merge_short_sentences_unmerged(sents, min_c) == sents

\* the for loop of _merge_short_sentences from sentence i, with buffer buf
RECURSIVE MergeShortFrom(_, _, _, _, _)
MergeShortFrom(sents, i, buf, acc, min_c) ==
    IF i > Len(sents) THEN Append(acc, buf)
    ELSE IF Len(buf) < min_c
    THEN MergeShortFrom(sents, i + 1, Strip(buf \o " " \o sents[i]), acc, min_c)
    ELSE MergeShortFrom(sents, i + 1, sents[i], Append(acc, buf), min_c)

\* _merge_short_sentences
merge_short_sentences(sents, min_c) ==
    IF sents = << >> THEN sents ELSE MergeShortFrom(sents, 2, sents[1], << >>, min_c)

Boundaries == << ",", ";", ":", " but ", " and ", " so ", " or " >>
Tolerance == 5
WindowSlack == 20

\* a cut right after the rightmost boundary token that ends within the
\* tolerance, the hard cut when there is none
CutRightmostWithin(remaining, max_c) ==
    LET cands == UNION { { i - 1 + Len(Boundaries[b]) :
                           i \in Occurrences(remaining, Boundaries[b]) } :
                         b \in 1..Len(Boundaries) }
        fit == { c \in cands : c <= max_c + Tolerance }
    IN  IF fit = {} THEN [at |-> max_c, kind |-> "hard"]
        ELSE [at |-> CHOOSE c \in fit : \A d \in fit : d <= c, kind |-> "boundary"]

\* a cut that takes the rightmost boundary of the window, within the
\* tolerance or not
CutAnywhereInWindow(remaining, max_c) ==
    LET window == SubSeq(remaining, 1, Min(Len(remaining), max_c + WindowSlack))
        cands == UNION { { i - 1 + Len(Boundaries[b]) : i \in Occurrences(window, Boundaries[b]) } :
                         b \in 1..Len(Boundaries) }
    IN  IF cands = {} THEN [at |-> max_c, kind |-> "hard"]
        ELSE [at |-> CHOOSE c \in cands : \A d \in cands : d <= c, kind |-> "boundary"]

\* lines 68-80: where the loop body cuts `remaining`, and whether the cut
\* follows a boundary or is the hard cut at preferred_max_chars
Cut(remaining, max_c) ==
    LET window == SubSeq(remaining, 1, Min(Len(remaining), max_c + WindowSlack))
        rfind(b) == { i \in Occurrences(window, b) :
                        \A j \in Occurrences(window, b) : j <= i }
        cands == UNION { { i - 1 + Len(Boundaries[b]) : i \in rfind(Boundaries[b]) } :
                         b \in 1..Len(Boundaries) }
        fit == { c \in cands : c <= max_c + Tolerance }
    IN  IF fit = {} THEN [at |-> max_c, kind |-> "hard"]
        ELSE [at |-> CHOOSE c \in fit : \A d \in fit : d <= c, kind |-> "boundary"]

\* a loop that forgets what remains after the last cut
RECURSIVE SplitLoopDroppingRest(_, _)
SplitLoopDroppingRest(remaining, max_c) ==
    IF Len(remaining) <= max_c THEN << >>
    ELSE << [text |-> Strip(SubSeq(remaining, 1, max_c)), kind |-> "hard", in_word |-> FALSE] >>
         \o SplitLoopDroppingRest(LStrip(SubSeq(remaining, max_c + 1, Len(remaining))), max_c)

\* the while loop of _split_long_segment: the parts appended, each with the
\* kind of cut that ended it ("rest" for what remains after the loop) and
\* whether the cut fell between two characters that are not white space
RECURSIVE SplitLoop(_, _)
SplitLoop(remaining, max_c) ==
    IF Len(remaining) <= max_c
    THEN IF remaining = "" THEN << >>
         ELSE << [text |-> remaining, kind |-> "rest", in_word |-> FALSE] >>
    ELSE LET cut == Cut(remaining, max_c)
             part == Strip(SubSeq(remaining, 1, cut.at))
             in_word == /\ cut.at < Len(remaining)
                        /\ ~IsSpaceChar(Ch(remaining, cut.at))
                        /\ ~IsSpaceChar(Ch(remaining, cut.at + 1))
         IN  (IF part = "" THEN << >>
              ELSE << [text |-> part, kind |-> cut.kind, in_word |-> in_word] >>)
             \o SplitLoop(LStrip(SubSeq(remaining, cut.at + 1, Len(remaining))), max_c)

\* _split_long_segment, with the cut that ended each piece
SplitPieces(text, max_c) ==
    IF Len(text) <= max_c THEN << [text |-> text, kind |-> "rest", in_word |-> FALSE] >>
    ELSE SplitLoop(text, max_c)

\* _split_long_segment
split_long_segment(text, max_c) ==
    [k \in 1..Len(SplitPieces(text, max_c)) |-> SplitPieces(text, max_c)[k].text]

\* the for loop of split_text_with_spacy over the merged segments
RECURSIVE SplitAll(_, _)
SplitAll(segs, max_c) ==
    IF segs = << >> THEN << >>
    ELSE split_long_segment(Head(segs), max_c) \o SplitAll(Tail(segs), max_c)

MaxSents == 2

\* stripped, non-empty sentences: short ones, ones with boundaries inside a
\* word, near the limit and beyond the tolerance, and ones without boundary
Sentences ==
    { "Hi.", "Welcome", "a, b, c, d, e, f, g", "one two three four", "1,000 dollars",
      "ab,", "abcdefghijklmnop", "x and y or z", "ab, cdefghijklmno, pq" }

InitSegment ==
    /\ raw_sents \in UNION { [1..k -> Sentences] : k \in 0..MaxSents }
    /\ min_chars \in { 0, 6 }
    /\ preferred_max_chars \in { 2, 8 }
    /\ merged_sents = << >> /\ final = << >>
    /\ duration_text = "" /\ duration_seconds = 0
    /\ content = "" /\ chunk = 0
    /\ clip_start = 0 /\ clip_end = 0 /\ output = << >>
    /\ chunks = << >> /\ sep = << >> /\ srt_text = ""
    /\ blocks = << >> /\ round_trip = "" /\ blocks2 = << >>
    /\ ok = FALSE /\ errors = << >> /\ pc = "sentences"
    /\ PostIdle
    /\ words = << >> /\ phrases = << >> /\ p_idx = 0 /\ w_idx = 0
    /\ phrase_words = << >> /\ taken = << >> /\ results = << >>
    /\ data = << >> /\ speaker = 0 /\ drop_non_speech = FALSE

\* merged = _merge_short_sentences(raw_sents, min_chars=min_chars)
MergeShortSentences ==
    /\ pc = "sentences"
    /\ merged_sents' = merge_short_sentences(raw_sents, min_chars)
    /\ pc' = "merged"
    /\ UNCHANGED <<raw_sents, min_chars, preferred_max_chars, final, duration_text,
                   duration_seconds, content, chunk, clip_start, clip_end, output,
                   chunks, sep, srt_text, blocks, round_trip, blocks2, ok, errors,
                   postVars, alignVars>>

\* final.extend(_split_long_segment(seg, ...)) for every merged segment
SplitLongSegments ==
    /\ pc = "merged"
    /\ final' = SplitAll(merged_sents, preferred_max_chars)
    /\ pc' = "split"
    /\ UNCHANGED <<raw_sents, min_chars, preferred_max_chars, merged_sents, duration_text,
                   duration_seconds, content, chunk, clip_start, clip_end, output,
                   chunks, sep, srt_text, blocks, round_trip, blocks2, ok, errors,
                   postVars, alignVars>>

NextSegment == MergeShortSentences \/ SplitLongSegments

SpecSegment == InitSegment /\ [][NextSegment]_vars

-----------------------------------------------------------------------------
(* to_seconds on its own                                                   *)

\* texts with and without the prefix, with each of the components H, M, S
\* missing, present, or present without a number that float() reads
DurationTexts ==
    { prefix \o h \o m \o sec :
        prefix \in { "PT", "P", "" },
        h \in { "", "1H", "H" },
        m \in { "", "2M", ".M" },
        sec \in { "", "3.5S", "S", "4", "1.2.3S" } }

InitToSeconds ==
    /\ duration_text \in DurationTexts
    /\ duration_seconds = 0
    /\ raw_sents = << >> /\ min_chars = 0 /\ preferred_max_chars = 0
    /\ merged_sents = << >> /\ final = << >>
    /\ content = "" /\ chunk = 0
    /\ clip_start = 0 /\ clip_end = 0 /\ output = << >>
    /\ chunks = << >> /\ sep = << >> /\ srt_text = ""
    /\ blocks = << >> /\ round_trip = "" /\ blocks2 = << >>
    /\ ok = FALSE /\ errors = << >> /\ pc = "text"
    /\ PostIdle
    /\ words = << >> /\ phrases = << >> /\ p_idx = 0 /\ w_idx = 0
    /\ phrase_words = << >> /\ taken = << >> /\ results = << >>
    /\ data = << >> /\ speaker = 0 /\ drop_non_speech = FALSE

\* duration_seconds = to_seconds(duration_text)
ToSeconds ==
    /\ pc = "text"
    /\ IF to_seconds(duration_text) = None
       THEN pc' = "raised" /\ UNCHANGED duration_seconds
       ELSE pc' = "returned" /\ duration_seconds' = to_seconds(duration_text)[1]
    /\ UNCHANGED <<raw_sents, min_chars, preferred_max_chars, merged_sents, final,
                   duration_text, content, chunk, clip_start, clip_end, output,
                   chunks, sep, srt_text, blocks, round_trip, blocks2, ok, errors,
                   postVars, alignVars>>

NextToSeconds == ToSeconds

SpecToSeconds == InitToSeconds /\ [][NextToSeconds]_vars

-----------------------------------------------------------------------------
(* translate_srt_gpt.py: a document translated chunk by chunk              *)

BLOCKS_PER_REQUEST == 40

\* total_chunks
total_chunks(bs) == (Len(bs) + BLOCKS_PER_REQUEST - 1) \div BLOCKS_PER_REQUEST

\* the positions in blocks of chunk_blocks(blocks, BLOCKS_PER_REQUEST)[idx - 1]
ChunkPositions(bs, idx) ==
    { k \in 1..Len(bs) : (idx - 1) * BLOCKS_PER_REQUEST < k /\ k <= idx * BLOCKS_PER_REQUEST }

\* the keys of {b.index: b for b in ... if b.index is not None}
IndexKeys(bs, positions) == { bs[k].index[1] : k \in { j \in positions : bs[j].index # None } }

\* the position the dictionary keeps for a key: a later block replaces an
\* earlier one with the same index
ByIndex(bs, positions, key) ==
    CHOOSE k \in positions :
        /\ bs[k].index = Some(key)
        /\ \A j \in positions : bs[j].index = Some(key) => j <= k

\* common_keys, as a set
common_keys(bs, positions, fixed_blocks) ==
    IndexKeys(bs, positions) \cap IndexKeys(fixed_blocks, 1..Len(fixed_blocks))

\* the loop of lines 231-238: ob.lines = fb.lines for every common key; the
\* start and the end written to fb are those of ob and reach no block of blocks
MergeTranslated(bs, positions, fixed_blocks) ==
    LET keys == common_keys(bs, positions, fixed_blocks)
    IN  [k \in 1..Len(bs) |->
            IF /\ k \in positions
               /\ bs[k].index # None
               /\ bs[k].index[1] \in keys
               /\ ByIndex(bs, positions, bs[k].index[1]) = k
            THEN [bs[k] EXCEPT !.lines =
                    fixed_blocks[ByIndex(fixed_blocks, 1..Len(fixed_blocks), bs[k].index[1])].lines]
            ELSE bs[k]]

\* the loop of lines 270-274: its body is "pass"
Rollback(bs, snapshot, positions, keys) == bs

\* fatal_errors is not empty: of the messages validate_srt writes only
\* "start time ... is after end time ..." holds one of the three marks
HasFatalError(errs) == \E e \in 1..Len(errs) : errs[e].kind = "start_after_end"

\* blocks after one iteration of the loop of lines 128-284 on chunk idx with
\* the response text response
TranslatedChunk(bs, idx, response) ==
    LET positions == ChunkPositions(bs, idx)
        fixed_blocks == parse_srt_blocks(response)
    IN  IF Len(fixed_blocks) = 0 THEN bs
        ELSE IF common_keys(bs, positions, fixed_blocks) = {} THEN bs
        ELSE LET merged_blocks == MergeTranslated(bs, positions, fixed_blocks)
                 checked == validate_srt(blocks_to_text(merged_blocks))
             IN  IF ~checked.ok /\ HasFatalError(checked.errors)
                 THEN Rollback(merged_blocks, bs, positions,
                               common_keys(bs, positions, fixed_blocks))
                 ELSE merged_blocks

\* input documents: well formed, with a block that ends before it starts, with
\* a block without index, with a repeated index
SourceTexts ==
    { "1\n00:00:01,000 --> 00:00:02,000\nHello\n\n2\n00:00:02,000 --> 00:00:03,000\nWorld\n",
      "1\n00:00:01,000 --> 00:00:02,000\nHello\n\n2\n00:00:05,000 --> 00:00:04,000\nWorld\n",
      "1\n00:00:01,000 --> 00:00:02,000\nHello\n\n00:00:02,000 --> 00:00:03,000\nWorld\n",
      "1\n00:00:01,000 --> 00:00:02,000\nHello\n\n1\n00:00:02,000 --> 00:00:03,000\nWorld\n",
      "2\n00:00:02,000 --> 00:00:03,000\nWorld\n\n1\n00:00:01,000 --> 00:00:02,000\nHello\n",
      "1\n00:00:01,000 --> 00:00:02,000\nHello\n",
      "2\n00:00:05,000 --> 00:00:04,000\nWorld\n" }

\* the values content can have at line 206: the text of the failure of all
\* three attempts, an empty response, text that is no subtitle file, blocks of
\* other indices, a full and a partial translation (with the source's or with
\* other timestamps), a translation followed by a block without index, and
\* translations of two payload lines, one of them a timestamp line
Responses ==
    { "[ERROR: Request timed out.]",
      "",
      "Sure, here is the translation.",
      "7\n00:00:01,000 --> 00:00:02,000\nNana\n",
      "1\n00:00:01,000 --> 00:00:02,000\nKonnichiwa\n\n2\n00:00:02,000 --> 00:00:03,000\nSekai\n",
      "2\n00:00:09,000 --> 00:00:09,500\nSekai\n",
      "1\n00:00:01,000 --> 00:00:02,000\nKonnichiwa\n\n1\n00:00:01,000 --> 00:00:02,000\nYa\n",
      "1\n00:00:01,000 --> 00:00:02,000\nKonnichiwa\n\ndesu\n00:00:09,000 --> 00:00:01,000\nne\n",
      "1\n00:00:01,000 --> 00:00:02,000\nKonnichiwa\n00:00:09,000 --> 00:00:01,000\n",
      "2\n00:00:02,000 --> 00:00:03,000\nSekai\ndesu\n" }

InitTranslate ==
    /\ srt_text \in SourceTexts
    /\ blocks = parse_srt_blocks(srt_text)
    /\ Len(blocks) > 0
    /\ before = blocks
    /\ content = "" /\ chunk = 0 /\ output = << >>
    /\ ok = TRUE /\ errors = << >> /\ pc = "source"
    /\ chunks = << >> /\ sep = << >> /\ round_trip = "" /\ blocks2 = << >>
    /\ seq = << >> /\ op = "none"
    /\ threshold = 0 /\ min_seconds = 0 /\ max_len = 0 /\ exceptions = {}
    /\ start_index = 1
    /\ raw_sents = << >> /\ min_chars = 0 /\ preferred_max_chars = 0
    /\ merged_sents = << >> /\ final = << >>
    /\ duration_text = "" /\ duration_seconds = 0
    /\ clip_start = 0 /\ clip_end = 0
    /\ words = << >> /\ phrases = << >> /\ p_idx = 0 /\ w_idx = 0
    /\ phrase_words = << >> /\ taken = << >> /\ results = << >>
    /\ data = << >> /\ speaker = 0 /\ drop_non_speech = FALSE

\* one iteration of the loop of lines 128-284: the response of the model (or
\* the error text after three failed attempts) is any text; ok and errors keep
\* validate_srt(merged_text) when the merge was made
TranslateChunk ==
    /\ pc = "source"
    /\ chunk < total_chunks(blocks)
    /\ \E response \in Responses :
        /\ content' = response
        /\ blocks' = TranslatedChunk(blocks, chunk + 1, response)
        /\ LET positions == ChunkPositions(blocks, chunk + 1)
               fixed_blocks == parse_srt_blocks(response)
           IN  IF Len(fixed_blocks) = 0 \/ common_keys(blocks, positions, fixed_blocks) = {}
               THEN ok' = TRUE /\ errors' = << >> /\ op' = "kept"
               ELSE LET checked == validate_srt(blocks_to_text(
                                       MergeTranslated(blocks, positions, fixed_blocks)))
                    IN  /\ ok' = checked.ok
                        /\ errors' = checked.errors
                        /\ op' = "merged"
    /\ before' = blocks
    /\ chunk' = chunk + 1
    /\ UNCHANGED <<raw_sents, min_chars, preferred_max_chars, merged_sents, final,
                   duration_text, duration_seconds, clip_start, clip_end, output,
                   chunks, sep, srt_text, round_trip, blocks2, pc,
                   seq, threshold, min_seconds, max_len, exceptions, start_index,
                   alignVars>>

\* lines 288-289: final_srt = blocks_to_text(blocks) is written
WriteTranslation ==
    /\ pc = "source"
    /\ chunk = total_chunks(blocks)
    /\ output' = blocks_to_text(blocks)
    /\ pc' = "written"
    /\ UNCHANGED <<raw_sents, min_chars, preferred_max_chars, merged_sents, final,
                   duration_text, duration_seconds, content, chunk, clip_start, clip_end,
                   chunks, sep, srt_text, blocks, round_trip, blocks2, ok, errors,
                   postVars, alignVars>>

NextTranslate == TranslateChunk \/ WriteTranslation

SpecTranslate == InitTranslate /\ [][NextTranslate]_vars

-----------------------------------------------------------------------------
(* utils/adjust_srt_timestamp.py: a subtitle file cut to a clip window     *)

\* f.readlines(): the lines of the file, each with its "\n"; the last one has
\* none when the file does not end with "\n"
ReadLines(text) ==
    LET p == Split(text, "\n")
    IN  [i \in 1..(IF p[Len(p)] = "" THEN Len(p) - 1 ELSE Len(p)) |->
            IF i < Len(p) THEN p[i] \o "\n" ELSE p[i]]

\* \d{2}:\d{2}:\d{2},\d{3} matches t from position i
ClockAt(t, i) ==
    /\ \A k \in {0, 1, 3, 4, 6, 7, 9, 10, 11} : IsDigitChar(Ch(t, i + k))
    /\ Ch(t, i + 2) = ":" /\ Ch(t, i + 5) = ":" /\ Ch(t, i + 8) = ","

\* re.match(r"(\d{2}:\d{2}:\d{2},\d{3}) --> (\d{2}:\d{2}:\d{2},\d{3})", times):
\* the pattern matches a prefix of the line
TimesMatch(times) ==
    /\ Len(times) >= 29
    /\ ClockAt(times, 1)
    /\ SubSeq(times, 13, 17) = " --> "
    /\ ClockAt(times, 18)

\* parse_srt_timestamp(ts) - datetime(1900, 1, 1), in ms, for ts a text that
\* matched \d{2}:\d{2}:\d{2},\d{3}: None where strptime raises ValueError
parse_srt_timestamp(ts) ==
    LET hh == IntOf(SubSeq(ts, 1, 2))
        mm == IntOf(SubSeq(ts, 4, 5))
        ss == IntOf(SubSeq(ts, 7, 8))
        ms == IntOf(SubSeq(ts, 10, 12))
    IN  IF hh > 23 \/ mm > 59 \/ ss > 59 THEN None
        ELSE Some((hh * 3600 + mm * 60 + ss) * 1000 + ms)

\* format_srt_timestamp(datetime(1900, 1, 1) + delta), delta in ms: the time
\* of day of the sum, the microseconds cut to three digits
format_srt_timestamp(delta) ==
    LET t == delta % 86400000
    IN  Pad2(t \div 3600000) \o ":" \o Pad2((t \div 60000) % 60) \o ":"
        \o Pad2((t \div 1000) % 60) \o "," \o Pad3(t % 1000)

\* lines 48-62: what a non-empty buffer appends to output when a blank line
\* is met; None where parse_srt_timestamp raises
FlushBuffer(buffer, c_start, c_end) ==
    IF Len(buffer) < 2 \/ ~TimesMatch(buffer[2]) THEN Some(<< >>)
    ELSE LET start == parse_srt_timestamp(SubSeq(buffer[2], 1, 12))
             end == parse_srt_timestamp(SubSeq(buffer[2], 18, 29))
         IN  IF start = None \/ end = None THEN None
             ELSE IF end[1] >= c_start /\ start[1] <= c_end
             THEN LET new_start == Max(start[1], c_start) - c_start
                      new_end == Min(end[1], c_end) - c_start
                  IN  Some(<< buffer[1],
                              format_srt_timestamp(new_start) \o " --> "
                                  \o format_srt_timestamp(new_end) \o "\n" >>
                           \o SubSeq(buffer, 3, Len(buffer))
                           \o << "\n" >>)
             ELSE Some(<< >>)

\* the loop of lines 45-65 from line i: Some(output), or None where it raises;
\* the buffer left when the lines are exhausted is dropped
RECURSIVE AdjustLoop(_, _, _, _, _, _)
AdjustLoop(lines, i, buffer, out, c_start, c_end) ==
    IF i > Len(lines) THEN Some(out)
    ELSE IF IsBlank(lines[i])
    THEN IF buffer = << >>
         THEN AdjustLoop(lines, i + 1, << >>, out, c_start, c_end)
         ELSE Only({ IF flushed = None THEN None
                     ELSE AdjustLoop(lines, i + 1, << >>, out \o flushed[1], c_start, c_end) :
                     flushed \in { FlushBuffer(buffer, c_start, c_end) } })
    ELSE AdjustLoop(lines, i + 1, Append(buffer, lines[i]), out, c_start, c_end)

\* adjust_srt: the lines written to output_path, or None where it raises
adjust_srt(text, c_start, c_end) == AdjustLoop(ReadLines(text), 1, << >>, << >>, c_start, c_end)

\* f.writelines(output)
RECURSIVE WriteLines(_)
WriteLines(ls) == IF Len(ls) = 0 THEN "" ELSE ls[1] \o WriteLines(Tail(ls))

MaxClipBlocks == 2

\* the blocks of the input files
ClipBlocks ==
    { SRTBlock(Some(1), "00:00:01,000", "00:00:02,000", << "Hello" >>),
      SRTBlock(Some(2), "00:00:02,500", "00:00:04,000", << "World" >>),
      SRTBlock(Some(3), "00:00:05,000", "00:00:06,000", << "Good", "bye" >>),
      SRTBlock(None, "00:00:03,000", "00:00:03,500", << "Oh" >>),
      SRTBlock(Some(4), "25:00:00,000", "25:00:01,000", << "Late" >>) }

\* the blank line an input file may end with
FileEnds == { "", "\n" }

InitAdjust ==
    /\ chunks \in UNION { [1..n -> ClipBlocks] : n \in 1..MaxClipBlocks }
    /\ \E file_end \in FileEnds : srt_text = blocks_to_text(chunks) \o file_end
    /\ blocks = parse_srt_blocks(srt_text)
    /\ clip_start \in {0, 1500}
    /\ clip_end \in {3000, 10000}
    /\ output = << >>
    /\ pc = "file"
    /\ sep = << >> /\ round_trip = "" /\ blocks2 = << >>
    /\ ok = FALSE /\ errors = << >>
    /\ PostIdle
    /\ raw_sents = << >> /\ min_chars = 0 /\ preferred_max_chars = 0
    /\ merged_sents = << >> /\ final = << >>
    /\ duration_text = "" /\ duration_seconds = 0
    /\ content = "" /\ chunk = 0
    /\ words = << >> /\ phrases = << >> /\ p_idx = 0 /\ w_idx = 0
    /\ phrase_words = << >> /\ taken = << >> /\ results = << >>
    /\ data = << >> /\ speaker = 0 /\ drop_non_speech = FALSE

\* adjust_srt(input_path, output_path, clip_start_sec, clip_end_sec); blocks2
\* is what the parser reads from the file written
AdjustSrt ==
    /\ pc = "file"
    /\ LET written == adjust_srt(srt_text, clip_start, clip_end)
       IN  IF written = None
           THEN pc' = "raised" /\ UNCHANGED <<output, blocks2>>
           ELSE /\ pc' = "adjusted"
                /\ output' = written[1]
                /\ blocks2' = parse_srt_blocks(WriteLines(written[1]))
    /\ UNCHANGED <<raw_sents, min_chars, preferred_max_chars, merged_sents, final,
                   duration_text, duration_seconds, content, chunk, clip_start, clip_end,
                   chunks, sep, srt_text, blocks, round_trip, ok, errors,
                   postVars, alignVars>>

NextAdjust == AdjustSrt

SpecAdjust == InitAdjust /\ [][NextAdjust]_vars

-----------------------------------------------------------------------------
(* Properties of the parser, serializer and validator (Spec)               *)

AllWell(cs) == \A i \in 1..Len(cs) : IsWell(cs[i])

\* C1: round trip. For a text written from well-formed blocks only (optional
\* integer index line, timestamp line, payload lines; any blank-line spacing),
\* parsing the serialization of the parse gives the same block sequence.
C1_RoundTrip ==
    (pc \in { "reparsed", "validated" } /\ AllWell(chunks)) => blocks2 = blocks

C1_Witness ==
    /\ pc = "reparsed" /\ AllWell(chunks)
    /\ Len(blocks) = 3 /\ blocks2 = blocks
    /\ sep = << "", " " >> /\ round_trip # srt_text
    /\ \E i \in 1..3 : blocks[i].index = None
    /\ \E i \in 1..3 : blocks[i].index = Some(35)

\* HH:MM:SS,mmm: two digits, two digits, two digits, three digits
FixedWidthClock(t) ==
    /\ Len(t) = 12
    /\ \A i \in { 1, 2, 4, 5, 7, 8, 10, 11, 12 } : IsDigitChar(Ch(t, i))
    /\ Ch(t, 3) = ":" /\ Ch(t, 6) = ":" /\ Ch(t, 9) = ","

\* C2: whenever validate_srt returns ok = True, every parsed block's start and
\* end has the fixed-width zero-padded shape HH:MM:SS,mmm.
C2_ValidatedFixedWidth ==
    (pc = "validated" /\ ok) =>
        \A i \in 1..Len(blocks) :
            FixedWidthClock(blocks[i].start) /\ FixedWidthClock(blocks[i].end)

\* start is later than end, as times
StartsAfterEnd(b) ==
    /\ timestamp_to_seconds(b.start) # None
    /\ timestamp_to_seconds(b.end) # None
    /\ timestamp_to_seconds(b.start)[1] > timestamp_to_seconds(b.end)[1]

\* C3: every text with a block whose start time is later than its end time is
\* reported invalid with a start-after-end diagnostic (so ok = True implies
\* start <= end, as times, for every block).
C3_StartAfterEndReported ==
    (pc = "validated" /\ \E i \in 1..Len(blocks) : StartsAfterEnd(blocks[i])) =>
        (~ok /\ \E k \in 1..Len(errors) : errors[k].kind = "start_after_end")

\* the block a well-formed candidate block parses to when it stands alone
OwnBlock(c) == parse_srt_blocks(Render(<< c >>, sep))[1]

WellPositions == SelectSeq([j \in 1..Len(chunks) |-> j], LAMBDA j : IsWell(chunks[j]))

\* the first of the malformed candidate blocks that stand right before position j
RECURSIVE FirstMalformedBefore(_)
FirstMalformedBefore(j) ==
    IF j > 2 /\ ~IsWell(chunks[j - 2]) THEN FirstMalformedBefore(j - 1) ELSE j - 1

IsSuffix(t, u) == Len(t) <= Len(u) /\ SubSeq(u, Len(u) - Len(t) + 1, Len(u)) = t

-----------------------------------------------------------------------------
(* Properties of the aligner (SpecAlign)                                   *)

RECURSIVE SumCounts(_)
SumCounts(runs) == IF Len(runs) = 0 THEN 0 ELSE runs[1].count + SumCounts(Tail(runs))

\* the sentences of the phrase processed last
LastSents == split_display_into_sentences(phrases[p_idx][1])

\* C5: conservation. For a phrase with N >= 1 words in its window and K >= 1
\* fragments, the words given to the emitted segments are N in all, in
\* contiguous, ordered, disjoint runs from the first word to the last, and
\* each segment spans the times of its run.
C5_Conservation ==
    (p_idx >= 1 /\ Len(phrase_words) >= 1 /\ Len(LastSents) >= 1) =>
        /\ SumCounts(taken) = Len(phrase_words)
        /\ Len(taken) >= 1 /\ taken[1].first = 1
        /\ \A k \in 1..Len(taken) : taken[k].count >= 1
        /\ \A k \in 1..(Len(taken) - 1) : taken[k + 1].first = taken[k].first + taken[k].count
        /\ \A k \in 1..Len(taken) :
             LET seg == results[Len(results) - Len(taken) + k]
             IN  /\ seg[1] = phrase_words[taken[k].first].start
                 /\ seg[2] = phrase_words[taken[k].first + taken[k].count - 1].end

C5_Witness ==
    /\ p_idx >= 1 /\ Len(phrase_words) = 4 /\ Len(LastSents) = 3
    /\ Len(taken) = 3 /\ taken[3].count = 2

SortedByStart(ws) == \A i \in 1..(Len(ws) - 1) : ws[i].start <= ws[i + 1].start

\* chronological order, and no window reaches into the next one
NonOverlapping(ps) == \A i \in 1..(Len(ps) - 1) : ps[i][2] <= ps[i][3] /\ ps[i][3] < ps[i + 1][2]

\* C6: for sorted words and chronological, non-overlapping phrases, the words
\* collected for a phrase are exactly the words whose midpoint lies in
\* [p_start - 1 ms, p_end + 1 ms].
C6_CollectsWindow ==
    (p_idx >= 1 /\ words # << >> /\ SortedByStart(words) /\ NonOverlapping(phrases)) =>
        phrase_words =
            SelectSeq(words, LAMBDA w : MidInWindow(w, phrases[p_idx][2], phrases[p_idx][3]))

-----------------------------------------------------------------------------
(* Properties of the post-processing steps                                 *)

\* a timestamp of the sequences' input sets as a time, in ms
TimeOf(ts) == timestamp_to_seconds(ts)[1]

\* C7 (SpecDuration): after enforce_min_duration, end(b) <= start(b_next)
\* for every block b except the last, on any block sequence.
C7_EndsBeforeNextStart ==
    op = "enforce_min_duration" =>
        \A i \in 1..(Len(seq) - 1) : TimeOf(seq[i].end) <= TimeOf(seq[i + 1].start)

\* C7, amended: after enforce_min_duration on blocks with digit-only
\* HH:MM:SS,mmm timestamps, end(b) <= start(b_next) for every block b except
\* the last whose end was not already later than start(b_next); an end that
\* was already later is left as it was.
C7_EndsBeforeNextStartOrKept ==
    op = "enforce_min_duration" =>
        /\ Len(seq) = Len(before)
        /\ \A i \in 1..(Len(seq) - 1) :
             IF TimeOf(before[i].end) <= TimeOf(before[i + 1].start)
             THEN TimeOf(seq[i].end) <= TimeOf(seq[i + 1].start)
             ELSE seq[i].end = before[i].end

C7_Witness ==
    /\ op = "enforce_min_duration" /\ Len(seq) = 2
    /\ seq[1].end # before[1].end
    /\ seq[1].end = seq[2].start
    /\ seq[1].lines = << "i am here now" >>

\* next.start - current.end of the pair (i, i + 1), in ms, or None
GapOf(s, i) ==
    IF timestamp_to_seconds(s[i].end) = None \/ timestamp_to_seconds(s[i + 1].start) = None
    THEN None
    ELSE Some(TimeOf(s[i + 1].start) - TimeOf(s[i].end))

\* C8 (SpecGaps): fill_short_gaps applied again with the same threshold
\* changes nothing.
C8_Idempotent == [][op = "fill_short_gaps" => seq' = seq]_vars

C8_Witness ==
    /\ op = "fill_short_gaps" /\ before = seq /\ Len(seq) = 3
    /\ \E i \in 1..2 : seq[i].end = seq[i + 1].start /\ seq[i].end \notin GapEnds

Heads(Merges(_)) == { 1 } \cup { j \in 2..Len(before) : ~Merges(j) }

\* the last block of the group that starts at head h
GroupEnd(Merges(_), h) ==
    IF \E j \in Heads(Merges) : j > h
    THEN (CHOOSE j \in Heads(Merges) : j > h /\ \A x \in Heads(Merges) : x > h => j <= x) - 1
    ELSE Len(before)

\* the result keeps one block per head, in order, from the head's start to the
\* end of the last block merged into it; a block nothing was merged into is
\* unchanged
MergedBy(Merges(_)) ==
    /\ Len(seq) = Cardinality(Heads(Merges))
    /\ \A h \in Heads(Merges) :
         LET k == Cardinality({ x \in Heads(Merges) : x <= h })
             g == GroupEnd(Merges, h)
         IN  /\ seq[k].start = before[h].start
             /\ seq[k].index = before[h].index
             /\ seq[k].end = before[g].end
             /\ g = h => seq[k] = before[h]
             /\ g > h => Len(seq[k].lines) = 1

\* the predecessor's current end is the end of the block before j, merged or not
Adjacent(j) == before[j].start = before[j - 1].end

TrimmedText(j) == Strip(BlockText(before[j]))

\* C10 (SpecMerge): a block is merged into its predecessor whenever its
\* trimmed text length is at most max_len, its trimmed text is not in the
\* exception set and its start equals the predecessor's current end; a block
\* failing any of the three is kept.
C10_ClaimedCondition(j) ==
    /\ Len(TrimmedText(j)) <= max_len
    /\ TrimmedText(j) \notin exceptions
    /\ Adjacent(j)

C10_MergesOnThreeConditions ==
    op = "merge_short_adjacent_blocks" => MergedBy(C10_ClaimedCondition)

\* C10, amended: a block is merged into its predecessor whenever its trimmed
\* text is not empty, has length at most max_len, is not one of the trimmed
\* entries of the exception set, and its start equals the predecessor's
\* current end; a block failing any of the four is kept.
C10_AmendedCondition(j) ==
    /\ TrimmedText(j) # ""
    /\ Len(TrimmedText(j)) <= max_len
    /\ TrimmedText(j) \notin { Strip(e) : e \in exceptions }
    /\ Adjacent(j)

C10_MergesOnFourConditions ==
    op = "merge_short_adjacent_blocks" => MergedBy(C10_AmendedCondition)

C10_Witness ==
    /\ op = "merge_short_adjacent_blocks" /\ Len(before) = 3 /\ Len(seq) = 2
    /\ before[1].lines = << "Thank" >>
    /\ seq[1].lines = << "Thank you" >> /\ seq[1].end = before[2].end
    /\ seq[2].lines = << "OK" >>

\* C11 (SpecPair): merging b2 into b1 leaves one block with the start and
\* index of b1, the end of b2, and as text the trimmed text of b1, a space,
\* and the trimmed text of b2, trimmed; b2's index appears nowhere in it.
C11_MergedBlock ==
    op = "merge_with_next" =>
        /\ seq[1].start = before[1].start
        /\ seq[1].end = before[2].end
        /\ seq[1].index = before[1].index
        /\ BlockText(seq[1]) =
               Strip(Strip(BlockText(before[1])) \o " " \o Strip(BlockText(before[2])))
        /\ Len(seq[1].lines) <= 1
        /\ seq[2] = before[2]

C11_Witness ==
    /\ op = "merge_with_next"
    /\ before[1].lines = << "a ", "b" >> /\ before[2].lines = << " you " >>
    /\ seq[1].lines = << "a \nb you" >>
    /\ seq[1].index = None /\ seq[1].end = "00:00:03,000"

\* well-formed timestamps, non-decreasing starts, start <= end <= next start
Chronological(s) ==
    /\ \A i \in 1..Len(s) :
         /\ looks_like_time(s[i].start) /\ looks_like_time(s[i].end)
         /\ TimeOf(s[i].start) <= TimeOf(s[i].end)
    /\ \A i \in 1..(Len(s) - 1) :
         /\ TimeOf(s[i].start) <= TimeOf(s[i + 1].start)
         /\ TimeOf(s[i].end) <= TimeOf(s[i + 1].start)

\* C12 (SpecPipeline): from a sequence with well-formed timestamps,
\* non-decreasing starts and start(b) <= end(b) <= start(b_next), every
\* sequence of post-processing operations leaves a sequence with the same
\* three properties.
C12_StaysChronological == Chronological(seq)

C12_Witness ==
    /\ op = "enforce_min_duration" /\ Len(seq) = 2
    /\ Chronological(seq)
    /\ seq[1].index = Some(1)
    /\ seq[1].lines = << "I am here now" >>
    /\ before[1].end = "00:00:00,500" /\ seq[1].end = "00:00:01,300"

\* C13 (SpecAlign): for words sorted by start with start <= end and phrases
\* in chronological order with non-overlapping windows, the segments emitted
\* have non-decreasing start times in output order.
C13_MonotonicStarts ==
    (/\ SortedByStart(words)
     /\ \A i \in 1..Len(words) : words[i].start <= words[i].end
     /\ NonOverlapping(phrases)) =>
        \A k \in 1..(Len(results) - 1) : results[k][1] <= results[k + 1][1]

\* no word has its midpoint in the window of the phrase processed last
NoWordInWindow ==
    \A i \in 1..Len(words) : ~MidInWindow(words[i], phrases[p_idx][2], phrases[p_idx][3])

\* C14 (SpecAlign): for every phrase in whose window no word falls, also when
\* there are no words at all, one segment per fragment of the phrase is
\* emitted, each over [phrase.start, phrase.end].
C14_WholePhraseFallback ==
    (p_idx >= 1 /\ NoWordInWindow) =>
        /\ Len(results) >= Len(LastSents)
        /\ \A k \in 1..Len(LastSents) :
             results[Len(results) - Len(LastSents) + k]
                 = << phrases[p_idx][2], phrases[p_idx][3], LastSents[k] >>

\* C15 (Spec): validate_srt returns, for every text, a pair (ok, errors) in
\* which ok holds exactly if errors is empty; for a text from which no block
\* is parsed it returns ok = False and at least one diagnostic.
C15_OkIffNoErrors ==
    pc = "validated" =>
        /\ ok <=> (errors = << >>)
        /\ blocks = << >> => (~ok /\ Len(errors) >= 1)

C15_Witness ==
    /\ pc = "validated" /\ blocks = << >> /\ Len(chunks) = 2
    /\ ~ok /\ Len(errors) = 1

\* the index written on the first line of each candidate block of Catalogue
WrittenIndex == << Some(34), None, Some(35), Some(1), Some(2), None, Some(7) >>

RenumberedInOrder ==
    /\ Len(seq) = Len(before)
    /\ \A i \in 1..Len(seq) :
         /\ seq[i].index = Some(start_index + i - 1)
         /\ seq[i].start = before[i].start
         /\ seq[i].end = before[i].end
         /\ seq[i].lines = before[i].lines

\* C16 (SpecRenumber): renumber_blocks(blocks, s) returns the blocks in the
\* same order, the block at position i (from 0) with index s + i, whatever
\* indices they had; starts, ends and payload lines are unchanged, and the
\* serialized result passes the validator's index check.
C16_RenumberedAndValid ==
    op = "renumber_blocks" =>
        /\ RenumberedInOrder
        /\ \A k \in 1..Len(validate_srt(blocks_to_text(seq)).errors) :
             validate_srt(blocks_to_text(seq)).errors[k].kind # "index_order"


-----------------------------------------------------------------------------
(* Properties of generate_srt_for_speaker (SpecGenerate)                   *)

HasPhrase(display) == \E k \in 1..Len(phrases) : phrases[k][1] = display

HasBlock(text) == \E k \in 1..Len(blocks) : BlockText(blocks[k]) = text

\* C18: with CLIPTOOLS_DROP_NON_SPEECH=1 in the environment the generated
\* subtitles hold no block whose text is the non-speech marker "*music*",
\* while the block of the speech phrase "Hello world." is still emitted;
\* when the option is not set the marker block is present.
C18_DropsNonSpeechWhenAsked ==
    pc = "parsed" =>
        /\ drop_non_speech => ~HasBlock("*music*")
        /\ HasPhrase("Hello world.") => HasBlock("Hello world.")
        /\ (~drop_non_speech /\ HasPhrase("*music*")) => HasBlock("*music*")


-----------------------------------------------------------------------------
(* Properties of normalize_english_pronoun_i (SpecNormalize)               *)

\* index, start, end and the number of lines of every block are as before
SameFrame ==
    /\ Len(seq) = Len(before)
    /\ \A i \in 1..Len(seq) :
         /\ seq[i].index = before[i].index
         /\ seq[i].start = before[i].start
         /\ seq[i].end = before[i].end
         /\ Len(seq[i].lines) = Len(before[i].lines)

\* a line rewritten in one pass from left to right: where Hit(t, p) gives a
\* match, its replacement is written and the pass goes on after the match;
\* every other character is copied
Rewritten(t, Hit(_, _)) ==
    LET RECURSIVE From(_)
        From(p) ==
            IF p > Len(t) THEN ""
            ELSE Only({ IF h = None THEN Ch(t, p) \o From(p + 1)
                        ELSE h[1].text \o From(h[1].last + 1) :
                        h \in { Hit(t, p) } })
    IN  From(1)

\* the replacements the code makes: a contraction of i or I with m, ve, ll, d,
\* re or s in either case, and the bare lowercase i
AnyCaseHit(t, p) ==
    IF ContractionMatch(t, p) # None
    THEN Some([last |-> ContractionMatch(t, p)[1].last,
               text |-> ContractionFor(ContractionMatch(t, p)[1].suffix)])
    ELSE IF BareAt(t, p) THEN Some([last |-> p, text |-> "I"])
    ELSE None

\* the replacements of the lowercase forms only: i'm, i've, i'll, i'd written
\* in lower case, and the bare lowercase i
LowercaseHit(t, p) ==
    IF /\ ContractionMatch(t, p) # None
       /\ ContractionMatch(t, p)[1].suffix \in { "m", "ve", "ll", "d" }
       /\ SubSeq(t, p, ContractionMatch(t, p)[1].last)
              = Lower(SubSeq(t, p, ContractionMatch(t, p)[1].last))
    THEN Some([last |-> ContractionMatch(t, p)[1].last,
               text |-> "I'" \o ContractionMatch(t, p)[1].suffix])
    ELSE IF BareAt(t, p) THEN Some([last |-> p, text |-> "I"])
    ELSE None

\* C19: normalize_english_pronoun_i replaces every bare lowercase word i with
\* I and every lowercase contraction i'm, i've, i'll, i'd (also with spaces
\* around the apostrophe) with I'm, I've, I'll, I'd in every payload line, and
\* changes nothing else: the other words, the number of lines and each
\* block's index, start and end are as before.
C19_LowercaseFormsOnly ==
    op = "normalize_english_pronoun_i" =>
        /\ SameFrame
        /\ \A i \in 1..Len(seq) : \A k \in 1..Len(seq[i].lines) :
             seq[i].lines[k] = Rewritten(before[i].lines[k], LowercaseHit)

\* C19 amended: the contractions replaced are those of i or I with m, ve, ll,
\* d, re or s in either case (also with spaces around the apostrophe), written
\* as I'm, I've, I'll, I'd, I'm (for re) and I's; together with the bare
\* lowercase i they are all that changes.
C19_ContractionsInEitherCase ==
    op = "normalize_english_pronoun_i" =>
        /\ SameFrame
        /\ \A i \in 1..Len(seq) : \A k \in 1..Len(seq[i].lines) :
             seq[i].lines[k] = Rewritten(before[i].lines[k], AnyCaseHit)

\* a block of two lines normalized after a block with upper-case and re forms
C19_Witness ==
    /\ op = "normalize_english_pronoun_i"
    /\ Len(seq) = 2
    /\ before[1].lines = << "I 'M in, i're late" >>
    /\ seq[1].lines = << "I'm in, I'm late" >>
    /\ before[2].lines = << "hi i ' ll it's i's", "if i'D i_ i'x" >>
    /\ seq[2].lines = << "hi I'll it's I's", "if I'd i_ I'x" >>


-----------------------------------------------------------------------------
(* Properties of enforce_min_duration as a frame (SpecSignedDuration)      *)

\* C20: enforce_min_duration only ever extends ends: for every input
\* sequence it leaves every block's start, index and payload lines unchanged,
\* never makes a block's end earlier than it was, never extends a block past
\* the next block's start, and leaves the last block completely unchanged.
C20_OnlyExtendsEnds ==
    op = "enforce_min_duration" =>
        /\ Len(seq) = Len(before)
        /\ \A i \in 1..Len(seq) :
             /\ seq[i].start = before[i].start
             /\ seq[i].index = before[i].index
             /\ seq[i].lines = before[i].lines
             /\ TimeOf(seq[i].end) >= TimeOf(before[i].end)
        /\ \A i \in 1..(Len(seq) - 1) :
             seq[i].end # before[i].end => TimeOf(seq[i].end) <= TimeOf(seq[i + 1].start)
        /\ seq[Len(seq)] = before[Len(seq)]


-----------------------------------------------------------------------------
(* Serialize-then-parse on every parse result (Spec)                       *)

\* C21: for every input text, well-formed or not, the blocks parsed from the
\* serialization of the parse are the blocks of the parse, also when a
\* payload holds text and blank lines accumulated before the timestamp line.
C21_ReparseStable == pc \in { "reparsed", "validated" } => blocks2 = blocks


-----------------------------------------------------------------------------
(* Fragments and segments (SpecAlign)                                      *)

\* C22: for a phrase with N >= 1 words in its window and K non-empty
\* fragments the aligner emits exactly K segments, one per fragment in
\* order, for every N and K (also N < K).
C22_OneSegmentPerFragment ==
    (p_idx >= 1 /\ words # << >> /\ phrase_words # << >>) =>
        LET sents == split_display_into_sentences(phrases[p_idx][1])
        IN  /\ Len(taken) = Len(sents)
            /\ Len(results) >= Len(sents)
            /\ \A k \in 1..Len(sents) :
                 results[Len(results) - Len(sents) + k][3] = sents[k]


-----------------------------------------------------------------------------
(* Properties of the sentence segmenter (SpecSegment)                      *)

\* C23: every fragment returned by _merge_short_sentences except possibly
\* the last has length >= min_chars, and the returned fragments joined with
\* single spaces are the input sentences joined with single spaces.
C23_MergeForward ==
    pc \in { "merged", "split" } =>
        /\ \A k \in 1..(Len(merged_sents) - 1) : Len(merged_sents[k]) >= min_chars
        /\ JoinLinesWith(merged_sents, " ") = JoinLinesWith(raw_sents, " ")

\* a short sentence merged into the one after it
C23_Witness ==
    /\ pc = "merged" /\ min_chars = 6
    /\ raw_sents = << "Hi.", "Welcome" >>
    /\ merged_sents = << "Hi. Welcome" >>

\* the pieces of every merged segment, in order, with the cuts that ended them
RECURSIVE AllPieces(_, _)
AllPieces(segs, max_c) ==
    IF segs = << >> THEN << >>
    ELSE SplitPieces(Head(segs), max_c) \o AllPieces(Tail(segs), max_c)

\* str.split(): the words of a text
WordsOf(t) == SelectSeq(Split(t, " "), LAMBDA w : w # "")

RECURSIVE WordsOfAll(_)
WordsOfAll(texts) ==
    IF texts = << >> THEN << >> ELSE WordsOf(Head(texts)) \o WordsOfAll(Tail(texts))

\* the words of the fragments texts[k..], where the first word of a fragment
\* continues the last word of the one before it (carry) when that one was
\* ended inside a word by a cut of one of the kinds given
RECURSIVE GluedWords(_, _, _, _, _)
GluedWords(texts, pieces, k, acc, kinds) ==
    IF k > Len(texts) THEN acc
    ELSE LET ws == WordsOf(texts[k])
             glue == /\ k > 1 /\ acc # << >> /\ ws # << >>
                     /\ pieces[k - 1].in_word /\ pieces[k - 1].kind \in kinds
             joined == IF glue
                       THEN SubSeq(acc, 1, Len(acc) - 1)
                            \o << acc[Len(acc)] \o ws[1] >> \o Tail(ws)
                       ELSE acc \o ws
         IN  GluedWords(texts, pieces, k + 1, joined, kinds)

\* C24: the words of the output fragments of merge-then-split are the words
\* of the splitter's sentences, where a hard break may cut one word into
\* two consecutive pieces; no character other than white space is dropped
\* or reordered.
C24_WordsKeptButHardBreaks ==
    pc = "split" =>
        /\ Len(final) = Len(AllPieces(merged_sents, preferred_max_chars))
        /\ GluedWords(final, AllPieces(merged_sents, preferred_max_chars), 1, << >>, { "hard" })
              = WordsOfAll(raw_sents)

\* C24 amended: a word may be cut in two by a hard break or by a cut right
\* after a boundary token that stands inside the word ("1,000").
C24_WordsKeptButCuts ==
    pc = "split" =>
        /\ Len(final) = Len(AllPieces(merged_sents, preferred_max_chars))
        /\ GluedWords(final, AllPieces(merged_sents, preferred_max_chars), 1, << >>,
                      { "hard", "boundary" })
              = WordsOfAll(raw_sents)

\* "1,000 dollars" is cut after its comma and by a hard break
C24_Witness ==
    /\ pc = "split" /\ preferred_max_chars = 8
    /\ raw_sents = << "1,000 dollars", "x and y or z" >>
    /\ final = << "1,", "000 doll", "ars", "x and y or", "z" >>

\* C25: for every text and every preferred_max_chars >= 1 the loop of
\* _split_long_segment ends, every returned piece has length at most
\* preferred_max_chars + 5, and the final piece has length at most
\* preferred_max_chars.
C25_PiecesBoundedLastWithinLimit ==
    pc = "split" =>
        \A i \in 1..Len(merged_sents) :
            LET pieces == split_long_segment(merged_sents[i], preferred_max_chars)
            IN  /\ \A k \in 1..Len(pieces) : Len(pieces[k]) <= preferred_max_chars + Tolerance
                /\ pieces # << >> => Len(pieces[Len(pieces)]) <= preferred_max_chars

\* C25 amended: the bound preferred_max_chars holds for what remains after
\* the last cut; when nothing remains, the final piece is one ended by a cut
\* and may be as long as preferred_max_chars + 5.
C25_PiecesBoundedRestWithinLimit ==
    pc = "split" =>
        \A i \in 1..Len(merged_sents) :
            LET pieces == SplitPieces(merged_sents[i], preferred_max_chars)
            IN  /\ \A k \in 1..Len(pieces) :
                     /\ Len(pieces[k].text) <= preferred_max_chars + Tolerance
                     /\ pieces[k].kind = "rest" =>
                            k = Len(pieces) /\ Len(pieces[k].text) <= preferred_max_chars
                /\ \E from \in 0..Len(final) :
                     SubSeq(final, from + 1, from + Len(pieces))
                       = [k \in 1..Len(pieces) |-> pieces[k].text]

\* a text ending right after a boundary is returned whole, longer than the limit
C25_Witness ==
    /\ pc = "split" /\ preferred_max_chars = 2
    /\ raw_sents = << "ab,", "abcdefghijklmnop" >> /\ min_chars = 0
    /\ final = << "ab,", "ab", "cd", "ef", "gh", "ij", "kl", "mn", "op" >>

RECURSIVE CutsRightmostWithin(_, _)
CutsRightmostWithin(remaining, max_c) ==
    \/ Len(remaining) <= max_c
    \/ /\ Cut(remaining, max_c) = CutRightmostWithin(remaining, max_c)
       /\ CutsRightmostWithin(
              LStrip(SubSeq(remaining, Cut(remaining, max_c).at + 1, Len(remaining))), max_c)

LastEndInWindow(remaining, max_c, b) ==
    LET ends == { e \in 1..Min(Len(remaining), max_c + WindowSlack) :
                    /\ e >= Len(Boundaries[b])
                    /\ SubSeq(remaining, e - Len(Boundaries[b]) + 1, e) = Boundaries[b] }
    IN  IF ends = {} THEN 0 ELSE CHOOSE e \in ends : \A d \in ends : d <= e

RECURSIVE CutsAfterLastOfAToken(_, _)
CutsAfterLastOfAToken(remaining, max_c) ==
    \/ Len(remaining) <= max_c
    \/ LET cut == Cut(remaining, max_c)
           usable == { b \in 1..Len(Boundaries) :
                         /\ LastEndInWindow(remaining, max_c, b) > 0
                         /\ LastEndInWindow(remaining, max_c, b) <= max_c + Tolerance }
       IN  /\ usable = {} => cut.at = max_c
           /\ usable # {} =>
                /\ \E b \in usable : cut.at = LastEndInWindow(remaining, max_c, b)
                /\ \A b \in usable : LastEndInWindow(remaining, max_c, b) <= cut.at
           /\ CutsAfterLastOfAToken(
                  LStrip(SubSeq(remaining, cut.at + 1, Len(remaining))), max_c)

-----------------------------------------------------------------------------
(* Ingestion (SpecGenerate)                                                *)

\* the word entries of the records of the speaker, as << record, entry >>
WordEntries ==
    { << r, k >> \in (1..Len(data)) \X (1..3) :
        /\ data[r].speaker = speaker /\ data[r].nBest # << >>
        /\ k <= Len(data[r].nBest[1].words) }

\* the conversion of the entry's offset or duration fails
Malformed(e) ==
    LET w == data[e[1]].nBest[1].words[e[2]]
    IN  to_seconds(w.offset) = None \/ to_seconds(w.duration) = None

\* the Word the entry stands for
Loaded(e) ==
    LET w == data[e[1]].nBest[1].words[e[2]]
    IN  Word(w.word, to_seconds(w.offset)[1], to_seconds(w.offset)[1] + to_seconds(w.duration)[1])

\* C27: when a word entry of a phrase has a malformed offset or duration,
\* load_words_and_displays skips only that word: every other word of the
\* same phrase and of other phrases, and the phrase record itself, are
\* loaded, and the call does not fail.
C27_SkipsOnlyTheMalformedWord ==
    /\ (pc = "raised") =>
          \E r \in 1..Len(data) :
              /\ data[r].speaker = speaker /\ data[r].nBest # << >>
              /\ to_seconds(data[r].offset) = None \/ to_seconds(data[r].duration) = None
    /\ (pc \in { "generated", "parsed" }) =>
          /\ Len(phrases)
               = Cardinality({ r \in 1..Len(data) :
                                 data[r].speaker = speaker /\ data[r].nBest # << >> })
          /\ Len(words) = Cardinality({ e \in WordEntries : ~Malformed(e) })
          /\ \A e \in WordEntries :
               ~Malformed(e) => \E k \in 1..Len(words) : words[k] = Loaded(e)

\* a phrase with one malformed word and one good word, after another phrase
C27_Witness ==
    /\ pc = "generated" /\ Len(data) = 2 /\ Len(phrases) = 2
    /\ \E e \in WordEntries : Malformed(e) /\ e[1] = 2
    /\ Len(words) = 3
    /\ words[3] = Word("No", 35000, 37000)


-----------------------------------------------------------------------------
(* Properties of to_seconds (SpecToSeconds)                                *)

\* the value read component by component, a component whose number float()
\* does not read counting as 0
RECURSIVE LenientFrom(_, _, _, _)
LenientFrom(pt, i, num, got) ==
    IF i > Len(pt) THEN got["H"] * 3600 + got["M"] * 60 + got["S"]
    ELSE LET ch == Ch(pt, i)
         IN  IF IsDigitChar(ch) \/ ch = "." THEN LenientFrom(pt, i + 1, num \o ch, got)
             ELSE IF ch \in { "H", "M", "S" }
             THEN LenientFrom(pt, i + 1, "",
                      [got EXCEPT ![ch] = IF FloatOf(num) = None THEN 0 ELSE FloatOf(num)[1]])
             ELSE LenientFrom(pt, i + 1, "", got)

HasPrefix == Len(duration_text) >= 2 /\ SubSeq(duration_text, 1, 2) = "PT"

\* C28: to_seconds raises exactly when the text does not begin with "PT";
\* for every text that does it returns 3600*H + 60*M + S, a component that
\* is missing or whose number cannot be parsed (an H, M or S with no digits
\* before it) counting as 0.
C28_FailsOnlyWithoutPrefix ==
    /\ pc = "raised" => ~HasPrefix
    /\ pc = "returned" =>
          /\ HasPrefix
          /\ duration_seconds = LenientFrom(duration_text, 3, "", [u \in { "H", "M", "S" } |-> 0])


\* C29: when the document validated after a chunk's merge has a fatal error,
\* the blocks of that chunk keep the payload lines they had before the merge;
\* and the file written has as many blocks as the input, with the same
\* indices, starts and ends.
SameTimingFrame(a, b) ==
    /\ Len(a) = Len(b)
    /\ \A k \in 1..Len(a) :
        a[k].index = b[k].index /\ a[k].start = b[k].start /\ a[k].end = b[k].end

RolledBack ==
    (op = "merged" /\ HasFatalError(errors))
        => \A k \in ChunkPositions(blocks, chunk) : blocks[k].lines = before[k].lines

C29_RollbackKeepsOriginalLines ==
    /\ pc \in {"source", "written"} /\ chunk > 0 => RolledBack
    /\ pc = "written" => SameTimingFrame(parse_srt_blocks(output), parse_srt_blocks(srt_text))


\* C30: whether or not the input file ends with a blank line, the output of
\* adjust_srt holds exactly the blocks with end >= clip_start and
\* start <= clip_end, in order, each with its index and payload and with
\* the times max(start, clip_start) - clip_start and
\* min(end, clip_end) - clip_start, and
\* 0 <= new_start <= new_end <= clip_end - clip_start.
InWindow(b) ==
    /\ timestamp_to_seconds(b.end)[1] >= clip_start
    /\ timestamp_to_seconds(b.start)[1] <= clip_end

Clipped(b) ==
    [b EXCEPT !.start = seconds_to_timestamp(
                            Max(timestamp_to_seconds(b.start)[1], clip_start) - clip_start),
              !.end = seconds_to_timestamp(
                            Min(timestamp_to_seconds(b.end)[1], clip_end) - clip_start)]

RECURSIVE ClippedBlocks(_)
ClippedBlocks(bs) ==
    IF Len(bs) = 0 THEN << >>
    ELSE (IF InWindow(bs[1]) THEN << Clipped(bs[1]) >> ELSE << >>) \o ClippedBlocks(Tail(bs))

C30_KeepsBlocksInWindow ==
    /\ pc # "raised"
    /\ pc = "adjusted" =>
        /\ blocks2 = ClippedBlocks(blocks)
        /\ \A k \in 1..Len(blocks2) :
            /\ 0 <= timestamp_to_seconds(blocks2[k].start)[1]
            /\ timestamp_to_seconds(blocks2[k].start)[1] <= timestamp_to_seconds(blocks2[k].end)[1]
            /\ timestamp_to_seconds(blocks2[k].end)[1] <= clip_end - clip_start

====
